---- MODULE Spec2Model ----
(***************************************************************************)
(* Model of the collection layer of seekdb-rs (src/src/collection.rs,      *)
(* src/src/filters.rs): the CRUD orchestrator of a Collection over one     *)
(* backend table, the WHERE-clause compiler and the hybrid-search          *)
(* orchestration.  Every `.await` on the backend is one step of a client,  *)
(* so that partial failure and interleavings of clients are visible.       *)
(***************************************************************************)
EXTENDS Integers, Sequences, FiniteSets, TLC

(* ------------------------------------------------------------------ *)
(* Bounds of the model                                                  *)
(* ------------------------------------------------------------------ *)
\* longest ids / embeddings / metadatas / documents list a caller passes
MaxIds == 2
\* number of calls one client issues in a behaviour
MaxCalls == 2
\* the collection's dimension (Collection.dimension, fixed at creation)
dimension == 2

(* ------------------------------------------------------------------ *)
(* Values                                                               *)
(* ------------------------------------------------------------------ *)
Clients == {1, 2}
\* the connections the pool of a ServerClient may open (max_connections)
Conns == {1, 2}
Ids == {"a", "b"}

\* Option<T>
None == [some |-> FALSE]
Some(x) == [some |-> TRUE, v |-> x]

\* serde_json::Value: Null, numbers, strings and the metadata objects {"x": n}
JNull == [t |-> "null"]
JNum(n) == [t |-> "number", n |-> n]
JStr(s) == [t |-> "string", s |-> s]
JObj(n) == [t |-> "object", x |-> n]

\* Embedding = Vec<f32>: a vector of the collection's dimension filled with k,
\* and vectors that are one component short / long
Vec(k) == [j \in 1..dimension |-> k]
ShortVec == [j \in 1..(dimension - 1) |-> 1]
SeqsUpTo(S, n) == UNION {[1..k -> S] : k \in 0..n}

\* Result<T>: Ok, an error of a SeekDbError kind, or a panic of the task
Ok == [kind |-> "Ok", msg |-> ""]
Pending == [kind |-> "Pending", msg |-> ""]
Err(k, m) == [kind |-> k, msg |-> m]
InvalidInput(m) == Err("InvalidInput", m)

(* ------------------------------------------------------------------ *)
(* Vector / metadata codec                                              *)
(* ------------------------------------------------------------------ *)
\* The wire text of a vector is modelled by its comma-separated tokens:
\* "[1,2]" is <<"1","2">> and "[]" is <<"">> (splitting "" gives one empty token).
vector_to_string(v) ==
    IF Len(v) = 0 THEN <<"">> ELSE [j \in 1..Len(v) |-> ToString(v[j])]

\* the f32 values that occur: 0 in generated vectors, g in the vectors of
\* call g; a token that does not parse as f32 is dropped (filter_map)
parse_vector_string(s) ==
    LET Floats == 0..(2 * MaxCalls)
        ok == SelectSeq(s, LAMBDA tok : \E x \in Floats : ToString(x) = tok)
    IN  [j \in 1..Len(ok) |-> CHOOSE x \in Floats : ToString(x) = ok[j]]

\* A text / json column holds SQL NULL or a text
SqlNull == [null |-> TRUE, text |-> JNull]
SqlText(v) == [null |-> FALSE, text |-> v]

\* serde_json::to_string(v) followed by the json column: the column keeps the value
to_string(v) == SqlText(v)

metadata_from_row(row) ==
    IF row.metadata.null THEN JNull ELSE row.metadata.text

(* ------------------------------------------------------------------ *)
(* Predicate AST and the SQL WHERE-clause compiler (filters.rs)         *)
(* ------------------------------------------------------------------ *)
Eq(f, v) == [op |-> "Eq", field |-> f, value |-> v]
Ne(f, v) == [op |-> "Ne", field |-> f, value |-> v]
Gt(f, v) == [op |-> "Gt", field |-> f, value |-> v]
Gte(f, v) == [op |-> "Gte", field |-> f, value |-> v]
Lt(f, v) == [op |-> "Lt", field |-> f, value |-> v]
Lte(f, v) == [op |-> "Lte", field |-> f, value |-> v]
In(f, vs) == [op |-> "In", field |-> f, values |-> vs]
Nin(f, vs) == [op |-> "Nin", field |-> f, values |-> vs]
And(fs) == [op |-> "And", args |-> fs]
Or(fs) == [op |-> "Or", args |-> fs]
Not(f) == [op |-> "Not", arg |-> f]
Contains(t) == [op |-> "Contains", text |-> t]
Regex(p) == [op |-> "Regex", text |-> p]

CmpOps == {"Eq", "Ne", "Gt", "Gte", "Lt", "Lte"}

\* A clause is the sequence of the tokens of its text; "" is <<>>.
JsonExtract(field) == <<"JSON_EXTRACT(metadata, '$.", field, "')">>

RECURSIVE Join(_, _)
Join(parts, sep) ==
    IF Len(parts) = 0 THEN <<>>
    ELSE IF Len(parts) = 1 THEN parts[1]
    ELSE parts[1] \o <<sep>> \o Join(Tail(parts), sep)

RECURSIVE Flatten(_)
Flatten(parts) ==
    IF Len(parts) = 0 THEN <<>> ELSE parts[1] \o Flatten(Tail(parts))

Placeholders(n) == Join([k \in 1..n |-> <<"?">>], ",")


\* the loop of And / Or appending the params of the children last child first
JoinChildren_ParamsReversed(subs, sep) ==
    LET kept == SelectSeq(subs, LAMBDA r : r.clause # <<>>)
    IN  [clause |-> <<"(">> \o Join([k \in 1..Len(kept) |-> kept[k].clause], sep) \o <<")">>,
         params |-> Flatten([k \in 1..Len(kept) |-> kept[Len(kept) + 1 - k].params])]

\* the loop of And / Or: children that yield a fragment, joined, in parentheses
JoinChildren(subs, sep) ==
    LET kept == SelectSeq(subs, LAMBDA r : r.clause # <<>>)
    IN  [clause |-> <<"(">> \o Join([k \in 1..Len(kept) |-> kept[k].clause], sep) \o <<")">>,
         params |-> Flatten([k \in 1..Len(kept) |-> kept[k].params])]

RECURSIVE build_meta_clause(_)
build_meta_clause(f) ==
    CASE f.op \in CmpOps ->
           [clause |-> JsonExtract(f.field) \o <<CASE f.op = "Eq" -> "=" [] f.op = "Ne" -> "!="
                                                      [] f.op = "Gt" -> ">" [] f.op = "Gte" -> ">="
                                                      [] f.op = "Lt" -> "<" [] f.op = "Lte" -> "<=",
                                                    "?">>,
            params |-> <<f.value>>]
      [] f.op = "In" ->
           [clause |-> JsonExtract(f.field) \o <<"IN", "(">> \o Placeholders(Len(f.values)) \o <<")">>,
            params |-> f.values]
      [] f.op = "Nin" ->
           [clause |-> JsonExtract(f.field) \o <<"NOT IN", "(">> \o Placeholders(Len(f.values)) \o <<")">>,
            params |-> f.values]
      [] f.op = "And" ->
           JoinChildren([k \in 1..Len(f.args) |-> build_meta_clause(f.args[k])], "AND")
      [] f.op = "Or" ->
           JoinChildren([k \in 1..Len(f.args) |-> build_meta_clause(f.args[k])], "OR")
      [] f.op = "Not" ->
           LET r == build_meta_clause(f.arg)
           IN  IF r.clause # <<>>
               THEN [clause |-> <<"NOT", "(">> \o r.clause \o <<")">>, params |-> r.params]
               ELSE [clause |-> <<>>, params |-> <<>>]

RECURSIVE build_doc_clause(_)
build_doc_clause(f) ==
    CASE f.op = "Contains" ->
           [clause |-> <<"MATCH(document) AGAINST (", "?", "IN NATURAL LANGUAGE MODE)">>,
            params |-> <<JStr(f.text)>>]
      [] f.op = "Regex" ->
           [clause |-> <<"document REGEXP", "?">>, params |-> <<JStr(f.text)>>]
      [] f.op = "And" ->
           JoinChildren([k \in 1..Len(f.args) |-> build_doc_clause(f.args[k])], "AND")
      [] f.op = "Or" ->
           JoinChildren([k \in 1..Len(f.args) |-> build_doc_clause(f.args[k])], "OR")

\* build_where_clause(filter, doc_filter, ids), each an Option
build_where_clause(filter, doc_filter, ids) ==
    LET idPart ==
            IF ids.some /\ Len(ids.v) # 0
            THEN <<[clause |-> <<"_id", "IN", "(">> \o Placeholders(Len(ids.v)) \o <<")">>,
                    params |-> [k \in 1..Len(ids.v) |-> JStr(ids.v[k])]]>>
            ELSE <<>>
        metaPart ==
            IF filter.some /\ build_meta_clause(filter.v).clause # <<>>
            THEN <<build_meta_clause(filter.v)>> ELSE <<>>
        docPart ==
            IF doc_filter.some /\ build_doc_clause(doc_filter.v).clause # <<>>
            THEN <<build_doc_clause(doc_filter.v)>> ELSE <<>>
        clauses == idPart \o metaPart \o docPart
    IN  [clause |-> IF Len(clauses) = 0 THEN <<>>
                    ELSE <<"WHERE">> \o Join([k \in 1..Len(clauses) |-> clauses[k].clause], "AND"),
         params |-> Flatten([k \in 1..Len(clauses) |-> clauses[k].params])]

(* ------------------------------------------------------------------ *)
(* The backend table (collaborator): rows keyed by _id                  *)
(* ------------------------------------------------------------------ *)
NoRow == [absent |-> TRUE]
Row(d, m, e) == [document |-> d, metadata |-> m, embedding |-> e]

\* `(` directly followed by `)`: an empty group or an empty IN list, which the
\* SQL parser of the backend rejects
MalformedSql(clause) ==
    \E k \in 1..(Len(clause) - 1) : clause[k] = "(" /\ clause[k + 1] = ")"

\* JSON_EXTRACT(metadata, '$.field') of a stored row: the number under "x"
Extracted(row, field) ==
    IF ~row.metadata.null /\ row.metadata.text.t = "object" /\ field = "x"
    THEN Some(row.metadata.text.x) ELSE None

RECURSIVE EvalMeta(_, _)
EvalMeta(f, row) ==
    CASE f.op \in CmpOps ->
           /\ Extracted(row, f.field).some
           /\ f.value.t = "number"
           /\ LET l == Extracted(row, f.field).v
                  r == f.value.n
              IN  (CASE f.op = "Eq" -> l = r [] f.op = "Ne" -> l # r
                     [] f.op = "Gt" -> l > r [] f.op = "Gte" -> l >= r
                     [] f.op = "Lt" -> l < r [] f.op = "Lte" -> l <= r)
      [] f.op = "In" ->
           /\ Extracted(row, f.field).some
           /\ \E k \in 1..Len(f.values) : f.values[k] = JNum(Extracted(row, f.field).v)
      [] f.op = "Nin" ->
           /\ Extracted(row, f.field).some
           /\ \A k \in 1..Len(f.values) : f.values[k] # JNum(Extracted(row, f.field).v)
      [] f.op = "And" -> \A k \in 1..Len(f.args) : EvalMeta(f.args[k], row)
      [] f.op = "Or" -> \E k \in 1..Len(f.args) : EvalMeta(f.args[k], row)
      [] f.op = "Not" -> ~EvalMeta(f.arg, row)

RECURSIVE EvalDoc(_, _)
EvalDoc(f, row) ==
    CASE f.op \in {"Contains", "Regex"} -> ~row.document.null /\ row.document.text = f.text
      [] f.op = "And" -> \A k \in 1..Len(f.args) : EvalDoc(f.args[k], row)
      [] f.op = "Or" -> \E k \in 1..Len(f.args) : EvalDoc(f.args[k], row)

\* the rows a statement with the clause compiled from (filter, doc_filter, ids)
\* selects: every row when the clause is empty
Selected(table, filter, doc_filter, ids) ==
    {id \in Ids :
        /\ table[id] # NoRow
        /\ (ids.some /\ Len(ids.v) # 0) => \E k \in 1..Len(ids.v) : ids.v[k] = id
        /\ filter.some => EvalMeta(filter.v, table[id])
        /\ doc_filter.some => EvalDoc(doc_filter.v, table[id])}

(* ------------------------------------------------------------------ *)
(* State                                                                *)
(* ------------------------------------------------------------------ *)
VARIABLES
    rows,      \* the collection's table: _id -> row or NoRow
    ef,        \* Collection.embedding_function: "none" or "configured"
    pc,        \* per client: where its current call stands
    op,        \* per client: the method called
    args,      \* per client: the arguments of the call
    idx,       \* per client: the loop index i of the call (1-based)
    resolved,  \* per client: the embeddings the call resolved (an Option)
    existing,  \* per client: what upsert read for the current id
    final,     \* per client: what upsert merged for the current id
    stale,     \* per client: the row changed between a read and the write after it
    result,    \* per client: what the call returned
    log,       \* per client: the statements the call sent to the backend
    efCalls,   \* per client: invocations of embed_documents by the call
    rows0,     \* per client: the table when the call started
    parm,      \* per client: the search_parm_json the call assembled
    qfilter,   \* per client: the filters of the SELECTs the call sends
    out,       \* per client: the result slots the call has collected
    ncalls,    \* per client: calls started so far
    session,   \* per connection of the pool: its user variable @search_parm
    seen       \* per client: the @search_parm its GET_SQL statement read

vars == <<rows, ef, pc, op, args, idx, resolved, existing, final, stale, result, log,
          efCalls, rows0, parm, qfilter, out, ncalls, session, seen>>

\* what a configured embedding function may do when it is invoked

NoExisting == [exists |-> FALSE, doc |-> None, meta |-> None, emb |-> None]
NoFinal == [doc |-> None, meta |-> JNull, emb |-> None]
\* a String that is empty, or holds the text of a json value
EmptyString == [empty |-> TRUE]
JsonText(v) == [empty |-> FALSE, json |-> v]
\* no result yet: the all_* vectors of a search before its first statement
NoResult ==
    [ids |-> <<>>, documents |-> None, metadatas |-> None, embeddings |-> None,
     distances |-> None]

Init ==
    /\ rows = [id \in Ids |-> NoRow]
    /\ ef \in {"none", "configured"}
    /\ pc = [c \in Clients |-> "idle"]
    /\ op = [c \in Clients |-> "none"]
    /\ args = [c \in Clients |-> [ids |-> <<>>]]
    /\ idx = [c \in Clients |-> 0]
    /\ resolved = [c \in Clients |-> None]
    /\ existing = [c \in Clients |-> NoExisting]
    /\ final = [c \in Clients |-> NoFinal]
    /\ stale = [c \in Clients |-> FALSE]
    /\ parm = [c \in Clients |-> EmptyString]
    /\ qfilter = [c \in Clients |-> [where_meta |-> None, where_doc |-> None]]
    /\ out = [c \in Clients |-> NoResult]
    /\ result = [c \in Clients |-> Pending]
    /\ log = [c \in Clients |-> <<>>]
    /\ efCalls = [c \in Clients |-> 0]
    /\ rows0 = [c \in Clients |-> rows]
    /\ ncalls = [c \in Clients |-> 0]
    /\ session = [conn \in Conns |-> SqlNull]
    /\ seen = [c \in Clients |-> None]

\* a statement sent to the backend, as the log keeps it: its kind, the _id it
\* binds, the (column, value) pairs it writes, its WHERE clause, and whether
\* the backend executed it
Stmt(kind, id, sets, clause, ok) ==
    [kind |-> kind, id |-> id, sets |-> sets, clause |-> clause, ok |-> ok]

\* the (column, value) pairs of INSERT INTO t (_id, document, metadata, embedding)
RowSets(row) ==
    {<<"document", row.document>>, <<"metadata", row.metadata>>, <<"embedding", row.embedding>>}

SqlError == Err("Sql", "backend error")

(* ------------------------------------------------------------------ *)
(* The embedding function (collaborator)                                *)
(* ------------------------------------------------------------------ *)
\* embed_documents(docs) of the configured function: a constant vector per
\* document (tests/common ConstantEmbedding), an error (DummyEmbedding), or a
\* function that breaks its contract (wrong dimension, one vector short)
EfResult(kind, docs) ==
    CASE kind = "constant" -> [res |-> Ok, v |-> [k \in 1..Len(docs) |-> Vec(0)]]
      [] kind = "dummy" -> [res |-> Err("Embedding", "DummyEmbedding should not be called"), v |-> <<>>]
      [] kind = "wrongdim" -> [res |-> Ok, v |-> [k \in 1..Len(docs) |-> [j \in 1..(dimension + 1) |-> 1]]]
      [] kind = "short" -> [res |-> Ok, v |-> [k \in 1..(Len(docs) - 1) |-> Vec(0)]]

(* ------------------------------------------------------------------ *)
(* Input validation and embedding resolution                            *)
(* ------------------------------------------------------------------ *)
\* `!list.is_empty() && list.len() != ids.len()` of an optional list
LengthMismatch(list, ids) ==
    list.some /\ Len(list.v) # 0 /\ Len(list.v) # Len(ids)

WrongDimension(embs) == \E k \in 1..Len(embs) : Len(embs[k]) # dimension

validate_lengths(ids, embeddings, metadatas, documents) ==
    IF Len(embeddings) # 0 /\ Len(embeddings) # Len(ids)
    THEN InvalidInput("embeddings length does not match ids length")
    ELSE IF WrongDimension(embeddings)
    THEN InvalidInput("embedding dimension does not match collection dimension")
    ELSE IF LengthMismatch(documents, ids)
    THEN InvalidInput("documents length does not match ids length")
    ELSE IF LengthMismatch(metadatas, ids)
    THEN InvalidInput("metadatas length does not match ids length")
    ELSE Ok

\* the check of the generated vectors: count, then dimension of each
CheckGenerated(gen, ids) ==
    IF gen.res # Ok THEN gen.res
    ELSE IF Len(gen.v) # Len(ids)
    THEN InvalidInput("embeddings length does not match ids length")
    ELSE IF WrongDimension(gen.v)
    THEN InvalidInput("embedding dimension does not match collection dimension")
    ELSE Ok

\* the results embed_documents(docs) can have
embed_documents(docs) == {EfResult(k, docs) : k \in {"constant", "dummy", "wrongdim", "short"}}

\* what a call has worked out before its first statement: the error it
\* returns or Ok, the embeddings it resolved, the invocations of the embedding
\* function, and for a search the search_parm_json and the filters
Plan(res, embs, calls, json, wm, wd, first) ==
    [res |-> res, embs |-> embs, calls |-> calls, parm |-> json,
     filters |-> [where_meta |-> wm, where_doc |-> wd], first |-> first]

Resolution(res, embs, calls) == Plan(res, embs, calls, EmptyString, None, None, "")

(* ------------------------------------------------------------------ *)
(* Collection::add                                                      *)
(* ------------------------------------------------------------------ *)
\* add preferring the vectors generated from the documents to the explicit ones
AddResolve_DocumentsFirst(efn, gen, ids, embeddings, metadatas, documents) ==
    IF Len(ids) = 0
    THEN Resolution(InvalidInput("ids must not be empty"), None, 0)
    ELSE IF LengthMismatch(documents, ids)
    THEN Resolution(InvalidInput("documents length does not match ids length"), None, 0)
    ELSE IF LengthMismatch(metadatas, ids)
    THEN Resolution(InvalidInput("metadatas length does not match ids length"), None, 0)
    ELSE IF documents.some /\ efn # "none"
    THEN Resolution(CheckGenerated(gen, ids), Some(gen.v), 1)
    ELSE IF embeddings.some
    THEN Resolution(validate_lengths(ids, embeddings.v, metadatas, documents), embeddings, 0)
    ELSE Resolution(InvalidInput("either provide embeddings or provide documents with embedding_function"), None, 0)

AddResolve(efn, gen, ids, embeddings, metadatas, documents) ==
    IF Len(ids) = 0
    THEN Resolution(InvalidInput("ids must not be empty"), None, 0)
    ELSE IF LengthMismatch(documents, ids)
    THEN Resolution(InvalidInput("documents length does not match ids length"), None, 0)
    ELSE IF LengthMismatch(metadatas, ids)
    THEN Resolution(InvalidInput("metadatas length does not match ids length"), None, 0)
    ELSE IF embeddings.some
    THEN Resolution(validate_lengths(ids, embeddings.v, metadatas, documents), embeddings, 0)
    ELSE IF documents.some
    THEN IF efn = "none"
         THEN Resolution(InvalidInput("documents provided but no embeddings and no embedding function"), None, 0)
         ELSE Resolution(CheckGenerated(gen, ids), Some(gen.v), 1)
    ELSE Resolution(InvalidInput("either provide embeddings or provide documents with embedding_function"), None, 0)

\* the client is between two calls and has calls left
CanCall(c) == pc[c] = "idle" /\ ncalls[c] < MaxCalls

\* a call starts: the client's record of the call is reset
Begin(c, o, a, r, first) ==
    /\ CanCall(c)
    /\ ncalls' = [ncalls EXCEPT ![c] = @ + 1]
    /\ op' = [op EXCEPT ![c] = o]
    /\ args' = [args EXCEPT ![c] = a]
    /\ rows0' = [rows0 EXCEPT ![c] = rows]
    /\ log' = [log EXCEPT ![c] = <<>>]
    /\ existing' = [existing EXCEPT ![c] = NoExisting]
    /\ final' = [final EXCEPT ![c] = NoFinal]
    /\ stale' = [stale EXCEPT ![c] = FALSE]
    /\ parm' = [parm EXCEPT ![c] = r.parm]
    /\ qfilter' = [qfilter EXCEPT ![c] = r.filters]
    /\ out' = [out EXCEPT ![c] = NoResult]
    /\ efCalls' = [efCalls EXCEPT ![c] = r.calls]
    /\ resolved' = [resolved EXCEPT ![c] = r.embs]
    /\ idx' = [idx EXCEPT ![c] = 1]
    /\ IF r.res = Ok
       THEN /\ pc' = [pc EXCEPT ![c] = first]
            /\ result' = [result EXCEPT ![c] = IF first = "done" THEN Ok ELSE Pending]
       ELSE /\ pc' = [pc EXCEPT ![c] = "done"]
            /\ result' = [result EXCEPT ![c] = r.res]
    /\ UNCHANGED <<rows, ef, session, seen>>

\* the call returns `res` to its caller
Finish(c, res) ==
    /\ pc' = [pc EXCEPT ![c] = "done"]
    /\ result' = [result EXCEPT ![c] = res]

\* the loop goes on with the next id, or the call returns Ok after the last one
NextId(c) ==
    IF idx[c] >= Len(args[c].ids)
    THEN Finish(c, Ok) /\ UNCHANGED idx
    ELSE idx' = [idx EXCEPT ![c] = @ + 1] /\ UNCHANGED <<pc, result>>

Send(c, stmt) == log' = [log EXCEPT ![c] = Append(@, stmt)]

\* Option<&[T]>.and_then(|l| l.get(i)), i counted from 1
GetAt(list, i) ==
    IF list.some /\ i <= Len(list.v) THEN Some(list.v[i]) ELSE None

UnwrapOr(o, d) == IF o.some THEN o.v ELSE d

DmlArgs(ids, embeddings, metadatas, documents) ==
    [ids |-> ids, embeddings |-> embeddings, metadatas |-> metadatas, documents |-> documents]

\* add up to its first statement; gen is what embed_documents returns if invoked
AddCall(c, ids, embeddings, metadatas, documents, gen) ==
    Begin(c, "add", DmlArgs(ids, embeddings, metadatas, documents),
          AddResolve(ef, gen, ids, embeddings, metadatas, documents), "add_insert")

\* the row that iteration i of add binds to its INSERT
AddRow(a, embs, i) ==
    Row(SqlText(UnwrapOr(GetAt(a.documents, i), "")),
        IF GetAt(a.metadatas, i).some THEN to_string(GetAt(a.metadatas, i).v) ELSE SqlNull,
        SqlText(vector_to_string(embs[i])))

\* add undoing the rows of the call when an INSERT fails
AddFail_Rollback(c, id, row) ==
    /\ Send(c, Stmt("INSERT", id, RowSets(row), <<>>, FALSE))
    /\ Finish(c, SqlError)
    /\ rows' = rows0[c]
    /\ UNCHANGED idx

\* the INSERT of add fails: the error is returned at once (`.await?`)
AddFail(c, id, row) ==
    /\ Send(c, Stmt("INSERT", id, RowSets(row), <<>>, FALSE))
    /\ Finish(c, SqlError)
    /\ UNCHANGED <<rows, idx>>

\* one iteration of the loop of add: `&embeddings[i]`, then the INSERT, which
\* the backend refuses for an _id that is stored (PRIMARY KEY) or for a reason
\* of its own
AddInsert(c) ==
    /\ pc[c] = "add_insert"
    /\ LET i == idx[c]
           id == args[c].ids[i]
       IN  IF i > Len(resolved[c].v)
           THEN /\ Finish(c, Err("Panic", "index out of bounds"))
                /\ UNCHANGED <<rows, log, idx>>
           ELSE \E fail \in BOOLEAN :
                  IF fail \/ rows[id] # NoRow
                  THEN AddFail(c, id, AddRow(args[c], resolved[c].v, i))
                  ELSE /\ Send(c, Stmt("INSERT", id, RowSets(AddRow(args[c], resolved[c].v, i)), <<>>, TRUE))
                       /\ rows' = [rows EXCEPT ![id] = AddRow(args[c], resolved[c].v, i)]
                       /\ NextId(c)
    /\ UNCHANGED <<ef, op, args, resolved, existing, final, stale, efCalls, rows0, session, seen, parm, qfilter, out, ncalls>>

(* ------------------------------------------------------------------ *)
(* Collection::update                                                   *)
(* ------------------------------------------------------------------ *)
UpdateResolve(efn, gen, ids, embeddings, metadatas, documents) ==
    IF ~embeddings.some /\ ~metadatas.some /\ ~documents.some
    THEN Resolution(InvalidInput("nothing to update: provide embeddings/documents/metadatas"), None, 0)
    ELSE IF LengthMismatch(documents, ids)
    THEN Resolution(InvalidInput("documents length does not match ids length"), None, 0)
    ELSE IF LengthMismatch(metadatas, ids)
    THEN Resolution(InvalidInput("metadatas length does not match ids length"), None, 0)
    ELSE IF embeddings.some
    THEN IF Len(embeddings.v) # Len(ids)
         THEN Resolution(InvalidInput("embeddings length does not match ids length"), None, 0)
         ELSE IF WrongDimension(embeddings.v)
         THEN Resolution(InvalidInput("embedding dimension does not match collection dimension"), None, 0)
         ELSE Resolution(Ok, embeddings, 0)
    ELSE IF documents.some
    THEN IF efn = "none"
         THEN Resolution(InvalidInput("documents provided but no embeddings and no embedding function"), None, 0)
         ELSE Resolution(CheckGenerated(gen, ids), Some(gen.v), 1)
    ELSE Resolution(Ok, None, 0)

\* update up to its first statement; with no ids the loop body never runs
\* a dense update: every column is set, the ones not provided to their defaults
UpdateSets_AllColumns(a, embs, i) ==
    {<<"document", SqlText(UnwrapOr(GetAt(a.documents, i), ""))>>,
     <<"metadata", to_string(UnwrapOr(GetAt(a.metadatas, i), JNull))>>,
     <<"embedding", SqlText(vector_to_string(UnwrapOr(GetAt(embs, i), <<>>)))>>}

\* the (column, value) pairs iteration i of update sets
UpdateSets(a, embs, i) ==
    (IF GetAt(a.documents, i).some
     THEN {<<"document", SqlText(GetAt(a.documents, i).v)>>} ELSE {})
    \cup
    (IF GetAt(a.metadatas, i).some
     THEN {<<"metadata", to_string(GetAt(a.metadatas, i).v)>>} ELSE {})
    \cup
    (IF GetAt(embs, i).some
     THEN {<<"embedding", SqlText(vector_to_string(GetAt(embs, i).v))>>} ELSE {})

Columns(sets) == {p[1] : p \in sets}

\* UPDATE t SET col = ?, ... WHERE _id = ?: the row after the statement
SetColumns(row, sets) ==
    IF row = NoRow THEN NoRow
    ELSE [col \in {"document", "metadata", "embedding"} |->
            IF col \in Columns(sets)
            THEN (CHOOSE p \in sets : p[1] = col)[2]
            ELSE row[col]]

\* one iteration of the loop of update
UpdateRow(c) ==
    /\ pc[c] = "update_row"
    /\ LET id == args[c].ids[idx[c]]
           sets == UpdateSets(args[c], resolved[c], idx[c])
       IN  IF sets = {}
           THEN /\ NextId(c)
                /\ UNCHANGED <<rows, log>>
           ELSE \E fail \in BOOLEAN :
                  IF fail
                  THEN /\ Send(c, Stmt("UPDATE", id, sets, <<>>, FALSE))
                       /\ Finish(c, SqlError)
                       /\ UNCHANGED <<rows, idx>>
                  ELSE /\ Send(c, Stmt("UPDATE", id, sets, <<>>, TRUE))
                       /\ rows' = [rows EXCEPT ![id] = SetColumns(@, sets)]
                       /\ NextId(c)
    /\ UNCHANGED <<ef, op, args, resolved, existing, final, stale, efCalls, rows0, session, seen, parm, qfilter, out, ncalls>>

(* ------------------------------------------------------------------ *)
(* Collection::upsert                                                   *)
(* ------------------------------------------------------------------ *)
UpsertResolve(efn, gen, ids, embeddings, metadatas, documents) ==
    IF Len(ids) = 0
    THEN Resolution(InvalidInput("ids must not be empty"), None, 0)
    ELSE IF ~embeddings.some /\ ~documents.some /\ ~metadatas.some
    THEN Resolution(InvalidInput("Neither embeddings nor documents nor metadatas provided."), None, 0)
    ELSE IF LengthMismatch(documents, ids)
    THEN Resolution(InvalidInput("documents length does not match ids length"), None, 0)
    ELSE IF LengthMismatch(metadatas, ids)
    THEN Resolution(InvalidInput("metadatas length does not match ids length"), None, 0)
    ELSE IF embeddings.some
    THEN Resolution(validate_lengths(ids, embeddings.v, metadatas, documents), embeddings, 0)
    ELSE IF documents.some
    THEN IF efn = "none"
         THEN Resolution(Ok, None, 0)
         ELSE Resolution(CheckGenerated(gen, ids), Some(gen.v), 1)
    ELSE Resolution(Ok, None, 0)

UpsertCall(c, ids, embeddings, metadatas, documents, gen) ==
    Begin(c, "upsert", DmlArgs(ids, embeddings, metadatas, documents),
          UpsertResolve(ef, gen, ids, embeddings, metadatas, documents), "upsert_read")

\* a read that never finds the row
ExistingOf_NeverFound(row) ==
    NoExisting

\* what get(ids = [id], limit 1, offset 0, include all) gives upsert
ExistingOf(row) ==
    IF row = NoRow THEN NoExisting
    ELSE [exists |-> TRUE,
          doc |-> Some(IF row.document.null THEN "" ELSE row.document.text),
          meta |-> Some(metadata_from_row(row)),
          emb |-> Some(IF row.embedding.null THEN <<>>
                       ELSE parse_vector_string(row.embedding.text))]

OrElse(a, b) == IF a.some THEN a ELSE b

\* a merge that prefers the existing value to the new one
merge_values_ExistingFirst(existing_doc, existing_meta, existing_emb, new_doc, new_meta, new_emb) ==
    [doc |-> OrElse(existing_doc, new_doc),
     meta |-> IF existing_meta.some THEN existing_meta.v
              ELSE IF new_meta.some THEN new_meta.v
              ELSE JNull,
     emb |-> OrElse(existing_emb, new_emb)]

merge_values(existing_doc, existing_meta, existing_emb, new_doc, new_meta, new_emb) ==
    [doc |-> OrElse(new_doc, existing_doc),
     meta |-> IF new_meta.some THEN new_meta.v
              ELSE IF existing_meta.some THEN existing_meta.v
              ELSE JNull,
     emb |-> OrElse(new_emb, existing_emb)]

\* the merge of iteration i: new values from the arguments, existing from the read
Merged(a, embs, ex, i) ==
    merge_values(ex.doc, ex.meta, ex.emb,
                 GetAt(a.documents, i), GetAt(a.metadatas, i), GetAt(embs, i))

\* the SELECT of iteration i of upsert (self.get) and the merge of what it returns
UpsertRead(c) ==
    /\ pc[c] = "upsert_read"
    /\ LET id == args[c].ids[idx[c]]
           w == build_where_clause(None, None, Some(<<id>>))
       IN  \E fail \in BOOLEAN :
             IF fail
             THEN /\ Send(c, Stmt("SELECT", id, {}, w.clause, FALSE))
                  /\ Finish(c, SqlError)
                  /\ UNCHANGED <<existing, final>>
             ELSE /\ Send(c, Stmt("SELECT", id, {}, w.clause, TRUE))
                  /\ existing' = [existing EXCEPT ![c] = ExistingOf(rows[id])]
                  /\ final' = [final EXCEPT ![c] =
                                 Merged(args[c], resolved[c], ExistingOf(rows[id]), idx[c])]
                  /\ pc' = [pc EXCEPT ![c] = "upsert_write"]
                  /\ UNCHANGED result
    /\ UNCHANGED <<rows, ef, op, args, idx, resolved, stale, efCalls, rows0, session, seen, parm, qfilter, out, ncalls>>

\* upsert writing back every merged column, passed or not
UpsertSets_AllColumns(a, embs, fin) ==
    {<<"document", SqlText(UnwrapOr(fin.doc, ""))>>,
     <<"metadata", to_string(fin.meta)>>,
     <<"embedding", SqlText(vector_to_string(UnwrapOr(fin.emb, <<>>)))>>}

\* the (column, value) pairs upsert sets on a row that exists
UpsertSets(a, embs, fin) ==
    (IF a.documents.some
     THEN {<<"document", SqlText(UnwrapOr(fin.doc, ""))>>} ELSE {})
    \cup
    (IF a.metadatas.some
     THEN {<<"metadata", to_string(fin.meta)>>} ELSE {})
    \cup
    (IF embs.some /\ fin.emb.some
     THEN {<<"embedding", SqlText(vector_to_string(fin.emb.v))>>} ELSE {})

\* the row upsert inserts for an id it did not find
UpsertRow(fin) ==
    Row(SqlText(UnwrapOr(fin.doc, "")),
        to_string(fin.meta),
        SqlText(IF fin.emb.some THEN vector_to_string(fin.emb.v) ELSE vector_to_string(<<>>)))

\* upsert with conflict detection: when the row is no longer the one it read,
\* the iteration is run again from its read
UpsertNext_Retry(c) ==
    IF ExistingOf(rows[args[c].ids[idx[c]]]) # existing[c]
    THEN /\ pc' = [pc EXCEPT ![c] = "upsert_read"]
         /\ UNCHANGED <<idx, result>>
    ELSE IF idx[c] >= Len(args[c].ids)
    THEN Finish(c, Ok) /\ UNCHANGED idx
    ELSE /\ idx' = [idx EXCEPT ![c] = @ + 1]
         /\ pc' = [pc EXCEPT ![c] = "upsert_read"]
         /\ UNCHANGED result

\* the loop of upsert goes on with the read of the next id, or returns Ok
UpsertNext(c) ==
    IF idx[c] >= Len(args[c].ids)
    THEN Finish(c, Ok) /\ UNCHANGED idx
    ELSE /\ idx' = [idx EXCEPT ![c] = @ + 1]
         /\ pc' = [pc EXCEPT ![c] = "upsert_read"]
         /\ UNCHANGED result

\* the write of iteration i of upsert: UPDATE if the read found the row, else INSERT
UpsertWrite(c) ==
    /\ pc[c] = "upsert_write"
    /\ LET id == args[c].ids[idx[c]]
           sets == UpsertSets(args[c], resolved[c], final[c])
       IN  /\ stale' = [stale EXCEPT ![c] = @ \/ ExistingOf(rows[id]) # existing[c]]
           /\ IF existing[c].exists
              THEN IF sets = {}
                   THEN UpsertNext(c) /\ UNCHANGED <<rows, log>>
                   ELSE \E fail \in BOOLEAN :
                          IF fail
                          THEN /\ Send(c, Stmt("UPDATE", id, sets, <<>>, FALSE))
                               /\ Finish(c, SqlError)
                               /\ UNCHANGED <<rows, idx>>
                          ELSE /\ Send(c, Stmt("UPDATE", id, sets, <<>>, TRUE))
                               /\ rows' = [rows EXCEPT ![id] = SetColumns(@, sets)]
                               /\ UpsertNext(c)
              ELSE \E fail \in BOOLEAN :
                     IF fail \/ rows[id] # NoRow
                     THEN /\ Send(c, Stmt("INSERT", id, RowSets(UpsertRow(final[c])), <<>>, FALSE))
                          /\ Finish(c, SqlError)
                          /\ UNCHANGED <<rows, idx>>
                     ELSE /\ Send(c, Stmt("INSERT", id, RowSets(UpsertRow(final[c])), <<>>, TRUE))
                          /\ rows' = [rows EXCEPT ![id] = UpsertRow(final[c])]
                          /\ UpsertNext(c)
    /\ UNCHANGED <<ef, op, args, resolved, existing, final, efCalls, rows0, session, seen, parm, qfilter, out, ncalls>>

(* ------------------------------------------------------------------ *)
(* Collection::delete                                                   *)
(* ------------------------------------------------------------------ *)
\* delete without its guard: every call goes on to the DELETE
DeleteResolve_NoGuard(ids, where_meta, where_doc) ==
    Resolution(Ok, None, 0)

DeleteResolve(ids, where_meta, where_doc) ==
    IF ~ids.some /\ ~where_meta.some /\ ~where_doc.some
    THEN Resolution(InvalidInput("must provide at least one of ids/where_meta/where_doc"), None, 0)
    ELSE Resolution(Ok, None, 0)

\* the DELETE statement: `DELETE FROM t <clause>`
DeleteExec(c) ==
    /\ pc[c] = "delete_exec"
    /\ LET a == args[c]
           w == build_where_clause(a.where_meta, a.where_doc, a.ids)
       IN  \E fail \in BOOLEAN :
             IF fail \/ MalformedSql(w.clause)
             THEN /\ Send(c, Stmt("DELETE", "", {}, w.clause, FALSE))
                  /\ Finish(c, SqlError)
                  /\ UNCHANGED rows
             ELSE /\ Send(c, Stmt("DELETE", "", {}, w.clause, TRUE))
                  /\ rows' = [id \in Ids |->
                                IF id \in Selected(rows, a.where_meta, a.where_doc, a.ids)
                                THEN NoRow ELSE rows[id]]
                  /\ Finish(c, Ok)
    /\ UNCHANGED <<ef, op, args, idx, resolved, existing, final, stale, efCalls, rows0, session, seen, parm, qfilter, out, ncalls>>

\* the caller takes the result; the client is ready for its next call
Return(c) ==
    /\ pc[c] = "done"
    /\ pc' = [pc EXCEPT ![c] = "idle"]
    /\ op' = [op EXCEPT ![c] = "none"]
    /\ args' = [args EXCEPT ![c] = [ids |-> <<>>]]
    /\ idx' = [idx EXCEPT ![c] = 0]
    /\ resolved' = [resolved EXCEPT ![c] = None]
    /\ existing' = [existing EXCEPT ![c] = NoExisting]
    /\ final' = [final EXCEPT ![c] = NoFinal]
    /\ stale' = [stale EXCEPT ![c] = FALSE]
    /\ parm' = [parm EXCEPT ![c] = EmptyString]
    /\ qfilter' = [qfilter EXCEPT ![c] = [where_meta |-> None, where_doc |-> None]]
    /\ out' = [out EXCEPT ![c] = NoResult]
    /\ result' = [result EXCEPT ![c] = Pending]
    /\ log' = [log EXCEPT ![c] = <<>>]
    /\ efCalls' = [efCalls EXCEPT ![c] = 0]
    /\ rows0' = [rows0 EXCEPT ![c] = rows]
    /\ seen' = [seen EXCEPT ![c] = None]
    /\ UNCHANGED <<rows, ef, session, ncalls>>

(* ------------------------------------------------------------------ *)
(* Collection::query_embeddings, query_texts, get                       *)
(* ------------------------------------------------------------------ *)
\* l2_distance(embedding, '<vector_str>') of the backend, squared
RECURSIVE l2_distance(_, _)
l2_distance(u, v) ==
    IF Len(u) = 0 THEN 0
    ELSE (u[1] - v[1]) * (u[1] - v[1]) + l2_distance(Tail(u), Tail(v))

StoredVector(row) ==
    IF row.embedding.null THEN <<>> ELSE parse_vector_string(row.embedding.text)

\* the orders in which `ORDER BY distance LIMIT n` may return the rows in S:
\* by distance to q, rows at the same distance in any order; the distance
\* to a NULL embedding is NULL, which sorts first
Nearest(table, S, q, n) ==
    {SubSeq(s, 1, IF n < Len(s) THEN n ELSE Len(s)) :
        s \in {t \in [1..Cardinality(S) -> S] :
                 /\ \A i, j \in 1..Cardinality(S) : i # j => t[i] # t[j]
                 /\ \A i, j \in 1..Cardinality(S) :
                       i < j => \/ table[t[i]].embedding.null
                                \/ /\ ~table[t[j]].embedding.null
                                   /\ l2_distance(StoredVector(table[t[i]]), q)
                                         <= l2_distance(StoredVector(table[t[j]]), q)}}

\* the orders in which a SELECT without ORDER BY may return the rows in S
AnyOrder(S, n) ==
    {SubSeq(s, 1, IF n < Len(s) THEN n ELSE Len(s)) :
        s \in {t \in [1..Cardinality(S) -> S] :
                 \A i, j \in 1..Cardinality(S) : i # j => t[i] # t[j]}}

\* include: None, or Some of the set of the fields listed
include_documents(include) == ~include.some \/ "Documents" \in include.v
include_metadatas(include) == ~include.some \/ "Metadatas" \in include.v
include_embeddings(include) == include.some /\ "Embeddings" \in include.v

QueryResult(ids, documents, metadatas, embeddings, distances) ==
    [ids |-> ids, documents |-> documents, metadatas |-> metadatas,
     embeddings |-> embeddings, distances |-> distances]

\* what the result loops read from the rows a statement returned, in the order
\* returned: get_string("document") defaulted to "", metadata_from_row, and
\* get_string("embedding") parsed when the column is not NULL
RowValues(table, slot) ==
    [docs |-> [j \in 1..Len(slot) |->
                 IF table[slot[j]].document.null THEN "" ELSE table[slot[j]].document.text],
     metas |-> [j \in 1..Len(slot) |-> metadata_from_row(table[slot[j]])],
     embs |-> [j \in 1..Len(slot) |->
                 IF table[slot[j]].embedding.null THEN None
                 ELSE Some(parse_vector_string(table[slot[j]].embedding.text))]]

\* the GetResult get builds from the rows its SELECT returned
get(table, slot, include) ==
    LET v == RowValues(table, slot)
    IN  [ids |-> slot,
         documents |-> IF include_documents(include) THEN Some(v.docs) ELSE None,
         metadatas |-> IF include_metadatas(include) THEN Some(v.metas) ELSE None,
         embeddings |-> IF include_embeddings(include)
                        THEN Some([j \in 1..Len(slot) |-> UnwrapOr(v.embs[j], <<>>)])
                        ELSE None]

empty_query_result(include) ==
    QueryResult(<<<<>>>>,
                IF include_documents(include) THEN Some(<<<<>>>>) ELSE None,
                IF include_metadatas(include) THEN Some(<<<<>>>>) ELSE None,
                IF include_embeddings(include) THEN Some(<<<<>>>>) ELSE None,
                Some(<<<<>>>>))

\* the one-slot QueryResult of the rows the hybrid statement returned; score is
\* the distance / score column of those rows, if they carry one
transform_hybrid_rows(table, slot, include, score) ==
    LET v == RowValues(table, slot)
    IN  QueryResult(<<slot>>,
                    IF include_documents(include) THEN Some(<<v.docs>>) ELSE None,
                    IF include_metadatas(include) THEN Some(<<v.metas>>) ELSE None,
                    IF include_embeddings(include)
                    THEN Some(<<[j \in 1..Len(slot) |-> UnwrapOr(v.embs[j], <<>>)]>>)
                    ELSE None,
                    Some(<<[j \in 1..Len(slot) |-> UnwrapOr(score, 0)]>>))

\* query_embeddings answering for its first vector only
query_embeddings_FirstOnly(query_embeddings_, where_meta, where_doc, calls) ==
    IF Len(query_embeddings_) = 0
    THEN Plan(InvalidInput("query_embeddings cannot be empty"), None, calls,
              EmptyString, None, None, "")
    ELSE Plan(Ok, Some(<<query_embeddings_[1]>>), calls, EmptyString, where_meta, where_doc,
              "query_select")

query_embeddings(query_embeddings_, where_meta, where_doc, calls) ==
    IF Len(query_embeddings_) = 0
    THEN Plan(InvalidInput("query_embeddings cannot be empty"), None, calls,
              EmptyString, None, None, "")
    ELSE Plan(Ok, Some(query_embeddings_), calls, EmptyString, where_meta, where_doc,
              "query_select")

\* query_texts handing whatever the embedding function returned to query_embeddings
query_texts_Unchecked(efn, gen, texts, where_meta, where_doc, calls) ==
    IF Len(texts) = 0
    THEN Plan(InvalidInput("texts must not be empty"), None, calls, EmptyString, None, None, "")
    ELSE IF efn = "none"
    THEN Plan(Err("Embedding", "Text embedding is not implemented"), None, calls,
              EmptyString, None, None, "")
    ELSE IF gen.res # Ok
    THEN Plan(gen.res, None, calls + 1, EmptyString, None, None, "")
    ELSE query_embeddings(gen.v, where_meta, where_doc, calls + 1)

query_texts(efn, gen, texts, where_meta, where_doc, calls) ==
    IF Len(texts) = 0
    THEN Plan(InvalidInput("texts must not be empty"), None, calls, EmptyString, None, None, "")
    ELSE IF efn = "none"
    THEN Plan(Err("Embedding", "Text embedding is not implemented"), None, calls,
              EmptyString, None, None, "")
    ELSE IF gen.res # Ok
    THEN Plan(gen.res, None, calls + 1, EmptyString, None, None, "")
    ELSE IF Len(gen.v) # Len(texts)
    THEN Plan(InvalidInput("embeddings length does not match texts length"), None, calls + 1,
              EmptyString, None, None, "")
    ELSE IF WrongDimension(gen.v)
    THEN Plan(InvalidInput("embedding dimension does not match collection dimension"), None,
              calls + 1, EmptyString, None, None, "")
    ELSE query_embeddings(gen.v, where_meta, where_doc, calls + 1)

\* arguments of the searches
QueryArgs(queries, n_results, where_meta, where_doc, include) ==
    [ids |-> <<>>, queries |-> queries, n_results |-> n_results,
     where_meta |-> where_meta, where_doc |-> where_doc, include |-> include]

\* one iteration of the loop of query_embeddings: the SELECT for vector i and
\* the slot its rows add to each vector of the result (an embedding is pushed
\* only for a row whose embedding column is not NULL)
QuerySelect(c) ==
    /\ pc[c] = "query_select"
    /\ LET q == resolved[c].v[idx[c]]
           w == build_where_clause(qfilter[c].where_meta, qfilter[c].where_doc, None)
           S == Selected(rows, qfilter[c].where_meta, qfilter[c].where_doc, None)
       IN  \E fail \in BOOLEAN :
             IF \/ fail
                \/ MalformedSql(w.clause)
                \/ \E id \in S : ~rows[id].embedding.null /\ Len(StoredVector(rows[id])) # Len(q)
             THEN /\ Send(c, Stmt("SELECT", "", {}, w.clause, FALSE))
                  /\ Finish(c, SqlError)
                  /\ UNCHANGED <<idx, out>>
             ELSE /\ Send(c, Stmt("SELECT", "", {}, w.clause, TRUE))
                  /\ \E slot \in Nearest(rows, S, q, args[c].n_results) :
                        LET v == RowValues(rows, slot)
                            embs == SelectSeq(v.embs, LAMBDA e : e.some)
                            include == args[c].include
                        IN  out' = [out EXCEPT ![c] = QueryResult(
                               Append(@.ids, slot),
                               IF include_documents(include)
                               THEN Some(Append(UnwrapOr(@.documents, <<>>), v.docs)) ELSE None,
                               IF include_metadatas(include)
                               THEN Some(Append(UnwrapOr(@.metadatas, <<>>), v.metas)) ELSE None,
                               IF include_embeddings(include)
                               THEN Some(Append(UnwrapOr(@.embeddings, <<>>),
                                                [j \in 1..Len(embs) |-> embs[j].v]))
                               ELSE None,
                               Some(Append(UnwrapOr(@.distances, <<>>),
                                           [j \in 1..Len(slot) |->
                                              IF v.embs[j].some
                                              THEN l2_distance(v.embs[j].v, q) ELSE 0])))]
                  /\ IF idx[c] >= Len(resolved[c].v)
                     THEN Finish(c, Ok) /\ UNCHANGED idx
                     ELSE idx' = [idx EXCEPT ![c] = @ + 1] /\ UNCHANGED <<pc, result>>
    /\ UNCHANGED <<rows, ef, op, args, resolved, existing, final, stale, efCalls, rows0, session, seen,
                   parm, qfilter, ncalls>>

\* get and peek up to the SELECT; peek(limit) is get(None, None, None,
\* Some(limit), Some(0), Some(&[Documents, Metadatas, Embeddings]))
GetCall(c, o, ids, where_meta, where_doc, limit, include) ==
    Begin(c, o,
          [ids |-> <<>>, only |-> ids, where_meta |-> where_meta, where_doc |-> where_doc,
           limit |-> limit, include |-> include],
          Plan(Ok, None, 0, EmptyString, where_meta, where_doc, "get_select"),
          "get_select")

\* the SELECT of get and the GetResult of its rows
GetSelect(c) ==
    /\ pc[c] = "get_select"
    /\ LET w == build_where_clause(args[c].where_meta, args[c].where_doc, args[c].only)
           S == Selected(rows, args[c].where_meta, args[c].where_doc, args[c].only)
       IN  \E fail \in BOOLEAN :
             IF fail \/ MalformedSql(w.clause)
             THEN /\ Send(c, Stmt("SELECT", "", {}, w.clause, FALSE))
                  /\ Finish(c, SqlError)
                  /\ UNCHANGED out
             ELSE /\ Send(c, Stmt("SELECT", "", {}, w.clause, TRUE))
                  /\ \E slot \in AnyOrder(S, UnwrapOr(args[c].limit, Cardinality(S))) :
                        out' = [out EXCEPT ![c] = get(rows, slot, args[c].include)]
                  /\ Finish(c, Ok)
    /\ UNCHANGED <<rows, ef, op, args, idx, resolved, existing, final, stale, efCalls, rows0, session, seen,
                   parm, qfilter, ncalls>>

\* the SELECT of get(None, where_meta, where_doc, Some(n_results), Some(0), include)
\* in the fallback of hybrid_search_advanced, wrapped into one slot
FallbackGet(c) ==
    /\ pc[c] = "fallback_get"
    /\ LET w == build_where_clause(qfilter[c].where_meta, qfilter[c].where_doc, None)
           S == Selected(rows, qfilter[c].where_meta, qfilter[c].where_doc, None)
       IN  \E fail \in BOOLEAN :
             IF fail \/ MalformedSql(w.clause)
             THEN /\ Send(c, Stmt("SELECT", "", {}, w.clause, FALSE))
                  /\ Finish(c, SqlError)
                  /\ UNCHANGED out
             ELSE /\ Send(c, Stmt("SELECT", "", {}, w.clause, TRUE))
                  /\ \E slot \in AnyOrder(S, args[c].n_results) :
                        LET get_res == get(rows, slot, args[c].include)
                        IN  out' = [out EXCEPT ![c] = QueryResult(
                               <<get_res.ids>>,
                               IF get_res.documents.some
                               THEN Some(<<get_res.documents.v>>) ELSE None,
                               IF get_res.metadatas.some
                               THEN Some(<<get_res.metadatas.v>>) ELSE None,
                               IF get_res.embeddings.some
                               THEN Some(<<get_res.embeddings.v>>) ELSE None,
                               Some(<<[j \in 1..Len(get_res.ids) |-> 0]>>))]
                  /\ Finish(c, Ok)
    /\ UNCHANGED <<rows, ef, op, args, idx, resolved, existing, final, stale, efCalls, rows0, session, seen,
                   parm, qfilter, ncalls>>

(* ------------------------------------------------------------------ *)
(* The search parameter of the hybrid engine                            *)
(* ------------------------------------------------------------------ *)
meta_path(field) == <<"(JSON_EXTRACT(metadata, '$.", field, "'))">>

\* json nodes of the search parameter
Term(path, v) == [node |-> "term", path |-> path, value |-> v]
Terms(path, vs) == [node |-> "terms", path |-> path, values |-> vs]
Range(path, o, v) == [node |-> "range", path |-> path, op |-> o, value |-> v]
Bool(key, children) == [node |-> "bool", key |-> key, children |-> children]
BoolMustFilter(must, filter) == [node |-> "bool", must |-> must, filter |-> filter]
QueryString(query) == [node |-> "query_string", fields |-> <<"document">>, query |-> query]

\* the loop of And / Or: a child with one condition contributes it, a child
\* with several contributes them under bool/must, a child with none nothing
ChildPart(sub) ==
    IF Len(sub) = 1 THEN <<sub[1]>>
    ELSE IF Len(sub) # 0 THEN <<Bool("must", sub)>>
    ELSE <<>>

RECURSIVE build_metadata_filter_for_search_parm(_)
build_metadata_filter_for_search_parm(f) ==
    CASE f.op = "Eq" -> <<Term(meta_path(f.field), f.value)>>
      [] f.op = "Ne" -> <<Bool("must_not", <<Term(meta_path(f.field), f.value)>>)>>
      [] f.op \in {"Gt", "Gte", "Lt", "Lte"} ->
           <<Range(meta_path(f.field),
                   CASE f.op = "Gt" -> "gt" [] f.op = "Gte" -> "gte"
                     [] f.op = "Lt" -> "lt" [] f.op = "Lte" -> "lte",
                   f.value)>>
      [] f.op = "In" -> <<Terms(meta_path(f.field), f.values)>>
      [] f.op = "Nin" -> <<Bool("must_not", <<Terms(meta_path(f.field), f.values)>>)>>
      [] f.op = "And" ->
           LET parts == Flatten([k \in 1..Len(f.args) |->
                                   ChildPart(build_metadata_filter_for_search_parm(f.args[k]))])
           IN  IF Len(parts) = 0 THEN <<>> ELSE <<Bool("must", parts)>>
      [] f.op = "Or" ->
           LET parts == Flatten([k \in 1..Len(f.args) |->
                                   ChildPart(build_metadata_filter_for_search_parm(f.args[k]))])
           IN  IF Len(parts) = 0 THEN <<>> ELSE <<Bool("should", parts)>>
      [] f.op = "Not" ->
           LET sub == build_metadata_filter_for_search_parm(f.arg)
           IN  IF Len(sub) = 0 THEN <<>> ELSE <<Bool("must_not", sub)>>

\* the texts of the Contains children, joined by sep
ContainsTexts(filters, sep) ==
    LET kept == SelectSeq(filters, LAMBDA f : f.op = "Contains")
    IN  Join([k \in 1..Len(kept) |-> <<kept[k].text>>], sep)

build_document_query_for_search_parm(where_doc) ==
    IF ~where_doc.some THEN None
    ELSE CASE where_doc.v.op = "Contains" -> Some(QueryString(<<where_doc.v.text>>))
           [] where_doc.v.op = "And" ->
                IF ContainsTexts(where_doc.v.args, " ") = <<>> THEN None
                ELSE Some(QueryString(ContainsTexts(where_doc.v.args, " ")))
           [] where_doc.v.op = "Or" ->
                IF ContainsTexts(where_doc.v.args, " OR ") = <<>> THEN None
                ELSE Some(QueryString(ContainsTexts(where_doc.v.args, " OR ")))
           [] where_doc.v.op = "Regex" -> None

\* HybridQuery, HybridKnn, HybridRank
HybridQuery(where_meta, where_doc) == [where_meta |-> where_meta, where_doc |-> where_doc]
HybridKnn(query_texts_, query_embeddings_, where_meta, n_results) ==
    [query_texts |-> query_texts_, query_embeddings |-> query_embeddings_,
     where_meta |-> where_meta, n_results |-> n_results]
Rrf(rank_window_size, rank_constant) ==
    [variant |-> "Rrf", rank_window_size |-> rank_window_size, rank_constant |-> rank_constant]

build_query_expr_from_hybrid(query) ==
    IF ~query.where_doc.some
    THEN IF query.where_meta.some
         THEN LET conds == build_metadata_filter_for_search_parm(query.where_meta.v)
              IN  IF Len(conds) = 0 THEN None
                  ELSE IF Len(conds) = 1 /\ conds[1].node \in {"range", "term"}
                  THEN Some(conds[1])
                  ELSE Some(Bool("filter", conds))
         ELSE None
    ELSE LET doc_query == build_document_query_for_search_parm(query.where_doc)
             conds == IF query.where_meta.some
                      THEN build_metadata_filter_for_search_parm(query.where_meta.v)
                      ELSE <<>>
         IN  IF doc_query.some
             THEN IF Len(conds) # 0
                  THEN Some(BoolMustFilter(<<doc_query.v>>, conds))
                  ELSE doc_query
             ELSE None

HybridKnnExpr(k, query_vector, conds) ==
    [field |-> "embedding", k |-> k, query_vector |-> query_vector,
     filter |-> IF Len(conds) = 0 THEN None ELSE Some(conds)]

KnnConds(where_meta) ==
    IF where_meta.some THEN build_metadata_filter_for_search_parm(where_meta.v) ELSE <<>>

\* the knn part taken from the first explicit vector as it is
build_knn_expr_from_hybrid_Unchecked(efn, gen, knn) ==
    IF knn.query_embeddings.some /\ Len(knn.query_embeddings.v) # 0
    THEN [res |-> Ok, calls |-> 0,
          knn |-> Some(HybridKnnExpr(UnwrapOr(knn.n_results, 10),
                                     knn.query_embeddings.v[1], KnnConds(knn.where_meta)))]
    ELSE [res |-> InvalidInput("knn requires either query_embeddings or query_texts"),
          knn |-> None, calls |-> 0]

\* [res, knn, calls]: the knn part, or the error that ends the call
build_knn_expr_from_hybrid(efn, gen, knn) ==
    IF knn.query_embeddings.some
    THEN IF Len(knn.query_embeddings.v) = 0
         THEN [res |-> InvalidInput("knn.query_embeddings must not be empty"), knn |-> None, calls |-> 0]
         ELSE IF Len(knn.query_embeddings.v[1]) # dimension
         THEN [res |-> InvalidInput("embedding dimension does not match collection dimension"),
               knn |-> None, calls |-> 0]
         ELSE [res |-> Ok, calls |-> 0,
               knn |-> Some(HybridKnnExpr(UnwrapOr(knn.n_results, 10),
                                          knn.query_embeddings.v[1], KnnConds(knn.where_meta)))]
    ELSE IF ~knn.query_texts.some
    THEN [res |-> InvalidInput("knn requires either query_embeddings or query_texts"),
          knn |-> None, calls |-> 0]
    ELSE IF Len(knn.query_texts.v) = 0
    THEN [res |-> InvalidInput("knn.query_texts must not be empty"), knn |-> None, calls |-> 0]
    ELSE IF efn = "none"
    THEN [res |-> Err("Embedding", "knn.query_texts provided but collection has no embedding_function"),
          knn |-> None, calls |-> 0]
    ELSE IF gen.res # Ok
    THEN [res |-> gen.res, knn |-> None, calls |-> 1]
    ELSE IF Len(gen.v) = 0
    THEN [res |-> InvalidInput("embedding_function returned empty embeddings for knn.query_texts"),
          knn |-> None, calls |-> 1]
    ELSE IF Len(gen.v[1]) # dimension
    THEN [res |-> InvalidInput("embedding dimension does not match collection dimension"),
          knn |-> None, calls |-> 1]
    ELSE [res |-> Ok, calls |-> 1,
          knn |-> Some(HybridKnnExpr(UnwrapOr(knn.n_results, 10), gen.v[1],
                                     KnnConds(knn.where_meta)))]

hybrid_rank_to_value(rank) ==
    IF rank.variant = "Rrf"
    THEN [t |-> "object",
          rrf |-> [rank_window_size |-> rank.rank_window_size,
                   rank_constant |-> rank.rank_constant]]
    ELSE rank.value

HybridSearchParam(query, knn, rank, size) ==
    [query |-> query, knn |-> knn, rank |-> rank, size |-> size]

\* [res, json, calls]
build_search_parm_from_typed(efn, gen, query, knn, rank, n_results) ==
    LET query_expr == IF query.some THEN build_query_expr_from_hybrid(query.v) ELSE None
        k == IF knn.some THEN build_knn_expr_from_hybrid(efn, gen, knn.v)
             ELSE [res |-> Ok, knn |-> None, calls |-> 0]
        rank_value == IF rank.some THEN Some(hybrid_rank_to_value(rank.v)) ELSE None
    IN  IF k.res # Ok THEN [res |-> k.res, json |-> EmptyString, calls |-> k.calls]
        ELSE IF ~query_expr.some /\ ~k.knn.some /\ ~rank_value.some
        THEN [res |-> Ok, json |-> EmptyString, calls |-> k.calls]
        ELSE [res |-> Ok, calls |-> k.calls,
              json |-> JsonText(HybridSearchParam(query_expr, k.knn, rank_value, Some(n_results)))]

\* [res, json, calls]
build_search_parm_json(efn, gen, queries, where_meta, where_doc, n_results) ==
    LET meta_filters == KnnConds(where_meta)
        doc_query == build_document_query_for_search_parm(where_doc)
        query_expr ==
            IF ~doc_query.some /\ Len(meta_filters) = 0 THEN None
            ELSE IF doc_query.some
            THEN IF Len(meta_filters) = 0 THEN doc_query
                 ELSE Some(BoolMustFilter(<<doc_query.v>>, meta_filters))
            ELSE Some(Bool("filter", meta_filters))
    IN  IF Len(queries) # 0 /\ efn = "none"
        THEN [res |-> Err("Embedding", "Hybrid search requires embedding_function for text queries"),
              json |-> EmptyString, calls |-> 0]
        ELSE IF Len(queries) # 0 /\ gen.res # Ok
        THEN [res |-> gen.res, json |-> EmptyString, calls |-> 1]
        ELSE IF Len(queries) # 0 /\ Len(gen.v) = 0
        THEN [res |-> InvalidInput("embedding_function returned empty embeddings"),
              json |-> EmptyString, calls |-> 1]
        ELSE IF Len(queries) # 0 /\ Len(gen.v[1]) # dimension
        THEN [res |-> InvalidInput("embedding dimension does not match collection dimension"),
              json |-> EmptyString, calls |-> 1]
        ELSE LET knn_expr == IF Len(queries) # 0
                             THEN Some(HybridKnnExpr(n_results, gen.v[1], meta_filters))
                             ELSE None
                 calls == IF Len(queries) # 0 THEN 1 ELSE 0
             IN  IF ~query_expr.some /\ ~knn_expr.some
                 THEN [res |-> Ok, json |-> EmptyString, calls |-> calls]
                 ELSE [res |-> Ok, calls |-> calls,
                       json |-> JsonText(HybridSearchParam(query_expr, knn_expr, None,
                                                           Some(n_results)))]

(* ------------------------------------------------------------------ *)
(* Collection::hybrid_search, hybrid_search_advanced                    *)
(* ------------------------------------------------------------------ *)
\* the call goes on to execute_hybrid_search with the assembled parameter, or
\* ends with the error of the assembly / with InvalidInput(msg) when it is empty
HybridPlan(built, msg) ==
    IF built.res # Ok
    THEN Plan(built.res, None, built.calls, EmptyString, None, None, "")
    ELSE IF built.json = EmptyString
    THEN Plan(InvalidInput(msg), None, built.calls, EmptyString, None, None, "")
    ELSE Plan(Ok, None, built.calls, built.json, None, None, "hybrid_set")

\* the fast path of hybrid_search: text queries and nothing else
FastPath(queries, search_params, where_meta, where_doc) ==
    ~search_params.some /\ ~where_meta.some /\ ~where_doc.some /\ Len(queries) # 0

\* hybrid_search without its fast path: every call goes to the hybrid engine
hybrid_search_NoFastPath(efn, gen, queries, search_params, where_meta, where_doc, n_results) ==
    HybridPlan(IF search_params.some
               THEN [res |-> Ok, json |-> JsonText(search_params.v), calls |-> 0]
               ELSE build_search_parm_json(efn, gen, queries, where_meta, where_doc, n_results),
               "hybrid_search requires queries, filters, or search_params")

hybrid_search(efn, gen, queries, search_params, where_meta, where_doc, n_results) ==
    IF FastPath(queries, search_params, where_meta, where_doc)
    THEN query_texts(efn, gen, queries, where_meta, where_doc, 0)
    ELSE HybridPlan(IF search_params.some
                    THEN [res |-> Ok, json |-> JsonText(search_params.v), calls |-> 0]
                    ELSE build_search_parm_json(efn, gen, queries, where_meta, where_doc, n_results),
                    "hybrid_search requires queries, filters, or search_params")

hybrid_search_advanced_knn_only(efn, gen, knn) ==
    IF knn.query_embeddings.some
    THEN IF Len(knn.query_embeddings.v) = 0
         THEN Plan(InvalidInput("knn.query_embeddings must not be empty"), None, 0,
                   EmptyString, None, None, "")
         ELSE query_embeddings(knn.query_embeddings.v, knn.where_meta, None, 0)
    ELSE IF knn.query_texts.some
    THEN IF Len(knn.query_texts.v) = 0
         THEN Plan(InvalidInput("knn.query_texts must not be empty"), None, 0,
                   EmptyString, None, None, "")
         ELSE query_texts(efn, gen, knn.query_texts.v, knn.where_meta, None, 0)
    ELSE Plan(InvalidInput("knn requires either query_embeddings or query_texts"), None, 0,
              EmptyString, None, None, "")

hybrid_search_advanced(efn, gen, query, knn, rank, n_results) ==
    IF ~query.some /\ ~rank.some
    THEN IF knn.some
         THEN hybrid_search_advanced_knn_only(efn, gen, knn.v)
         ELSE Plan(InvalidInput("hybrid_search requires at least query or knn parameters"),
                   None, 0, EmptyString, None, None, "")
    ELSE HybridPlan(build_search_parm_from_typed(efn, gen, query, knn, rank, n_results),
                    "hybrid_search requires at least query, knn, or rank parameters")

\* a combination that keeps the first filter only
combine_meta_filters_FirstOnly(a, b) ==
    IF a.some THEN a ELSE b

combine_meta_filters(a, b) ==
    IF ~a.some THEN b
    ELSE IF ~b.some THEN a
    ELSE Some(And(<<a.v, b.v>>))

hybrid_search_advanced_fallback(efn, gen, query, knn, calls) ==
    IF knn.some
    THEN LET where_meta == combine_meta_filters(
                               IF query.some THEN query.v.where_meta ELSE None,
                               knn.v.where_meta)
             where_doc == IF query.some THEN query.v.where_doc ELSE None
         IN  IF knn.v.query_embeddings.some
             THEN IF Len(knn.v.query_embeddings.v) = 0
                  THEN Plan(InvalidInput("knn.query_embeddings must not be empty"), None, calls,
                            EmptyString, None, None, "")
                  ELSE query_embeddings(knn.v.query_embeddings.v, where_meta, where_doc, calls)
             ELSE IF knn.v.query_texts.some
             THEN IF Len(knn.v.query_texts.v) = 0
                  THEN Plan(InvalidInput("knn.query_texts must not be empty"), None, calls,
                            EmptyString, None, None, "")
                  ELSE query_texts(efn, gen, knn.v.query_texts.v, where_meta, where_doc, calls)
             ELSE Plan(InvalidInput("knn requires either query_embeddings or query_texts"),
                       None, calls, EmptyString, None, None, "")
    ELSE IF query.some
    THEN Plan(Ok, None, calls, EmptyString, query.v.where_meta, query.v.where_doc, "fallback_get")
    ELSE Plan(InvalidInput("hybrid_search requires at least query or knn parameters"),
              None, calls, EmptyString, None, None, "")

\* errors of the backend: one that is_hybrid_invalid_argument recognises by its
\* message ("invalid argument" / "1210"), and any other
InvalidArgument == Err("Sql", "Invalid argument (1210)")
is_hybrid_invalid_argument(err) == err.kind = "Sql" /\ err.msg = InvalidArgument.msg

\* the texts the embedding function is given by a search: all of them where
\* query_texts runs, only the first where the knn part is assembled
TextsOf(knn) == IF knn.some THEN UnwrapOr(knn.v.query_texts, <<>>) ELSE <<>>

HybridArgs(queries, search_params, where_meta, where_doc, query, knn, rank, n_results, include) ==
    [ids |-> <<>>, queries |-> queries, search_params |-> search_params,
     where_meta |-> where_meta, where_doc |-> where_doc,
     query |-> query, knn |-> knn, rank |-> rank, n_results |-> n_results,
     include |-> include]

HybridSearchCall(c, queries, search_params, where_meta, where_doc, n_results, include, gen) ==
    LET r == hybrid_search(ef, gen, queries, search_params, where_meta, where_doc, n_results)
    IN  Begin(c, "hybrid_search",
              HybridArgs(queries, search_params, where_meta, where_doc, None, None, None,
                         n_results, include),
              r, r.first)

HybridSearchAdvancedCall(c, query, knn, rank, n_results, include, gen) ==
    LET r == hybrid_search_advanced(ef, gen, query, knn, rank, n_results)
    IN  Begin(c, "hybrid_search_advanced",
              HybridArgs(<<>>, None, None, None, query, knn, rank, n_results, include),
              r, r.first)

\* execute_hybrid_search returned err: hybrid_search_advanced runs its fallback
\* for an invalid-argument error, every other case returns the error
HybridFail(c, err) ==
    IF op[c] = "hybrid_search_advanced" /\ is_hybrid_invalid_argument(err)
    THEN \E gen \in embed_documents(TextsOf(args[c].knn)) :
           LET r == hybrid_search_advanced_fallback(ef, gen, args[c].query, args[c].knn, efCalls[c])
           IN  /\ resolved' = [resolved EXCEPT ![c] = r.embs]
               /\ qfilter' = [qfilter EXCEPT ![c] = r.filters]
               /\ efCalls' = [efCalls EXCEPT ![c] = r.calls]
               /\ idx' = [idx EXCEPT ![c] = 1]
               /\ IF r.res = Ok
                  THEN pc' = [pc EXCEPT ![c] = r.first] /\ UNCHANGED result
                  ELSE Finish(c, r.res)
    ELSE Finish(c, err) /\ UNCHANGED <<resolved, qfilter, efCalls, idx>>

\* SET @search_parm = '<json>'
HybridSet(c) ==
    /\ pc[c] = "hybrid_set"
    /\ \/ /\ Send(c, Stmt("SET", "", {}, <<>>, TRUE))
          /\ pc' = [pc EXCEPT ![c] = "hybrid_get_sql"]
          /\ UNCHANGED <<result, resolved, qfilter, efCalls, idx>>
       \/ \E err \in {SqlError, InvalidArgument} :
             /\ Send(c, Stmt("SET", "", {}, <<>>, FALSE))
             /\ HybridFail(c, err)
    /\ UNCHANGED <<rows, ef, op, args, existing, final, stale, rows0, session, seen, parm, out, ncalls>>

\* SELECT DBMS_HYBRID_SEARCH.GET_SQL(table, @search_parm): no row or an empty
\* text give the empty result, else the text is the statement to run
HybridGetSql(c) ==
    /\ pc[c] = "hybrid_get_sql"
    /\ \/ \E query_sql \in {"none", "empty", "sql"} :
             /\ Send(c, Stmt("GET_SQL", "", {}, <<>>, TRUE))
             /\ IF query_sql = "sql"
                THEN /\ pc' = [pc EXCEPT ![c] = "hybrid_run"]
                     /\ UNCHANGED <<result, out>>
                ELSE /\ out' = [out EXCEPT ![c] = empty_query_result(args[c].include)]
                     /\ Finish(c, Ok)
             /\ UNCHANGED <<resolved, qfilter, efCalls, idx>>
       \/ \E err \in {SqlError, InvalidArgument} :
             /\ Send(c, Stmt("GET_SQL", "", {}, <<>>, FALSE))
             /\ HybridFail(c, err)
             /\ UNCHANGED out
    /\ UNCHANGED <<rows, ef, op, args, existing, final, stale, rows0, session, seen, parm, ncalls>>

\* the statement the engine generated: its rows become the one slot of the result
HybridRun(c) ==
    /\ pc[c] = "hybrid_run"
    /\ \/ \E S \in SUBSET {id \in Ids : rows[id] # NoRow} :
            \E slot \in AnyOrder(S, Cardinality(S)), score \in {None, Some(1)} :
             /\ Send(c, Stmt("HYBRID", "", {}, <<>>, TRUE))
             /\ out' = [out EXCEPT ![c] =
                          transform_hybrid_rows(rows, slot, args[c].include, score)]
             /\ Finish(c, Ok)
             /\ UNCHANGED <<resolved, qfilter, efCalls, idx>>
       \/ \E err \in {SqlError, InvalidArgument} :
             /\ Send(c, Stmt("HYBRID", "", {}, <<>>, FALSE))
             /\ HybridFail(c, err)
             /\ UNCHANGED out
    /\ UNCHANGED <<rows, ef, op, args, existing, final, stale, rows0, session, seen, parm, ncalls>>

(* ------------------------------------------------------------------ *)
(* Inputs                                                               *)
(* ------------------------------------------------------------------ *)
\* The lists a call passes hold one value repeated: the document, metadata
\* object and vector of generation g, where g numbers the calls made so far, so
\* that what a call writes differs from everything stored before it.  Every
\* length up to MaxIds occurs, and so does a vector of the wrong dimension in
\* the last place.
Gen == ncalls[1] + ncalls[2] + 1
Doc(g) == ToString(g)
Lists(v) == {None} \cup {Some([k \in 1..m |-> v]) : m \in 0..MaxIds}
EmbLists(g) ==
    Lists(Vec(g)) \cup
    {Some([k \in 1..m |-> IF k = m THEN ShortVec ELSE Vec(g)]) : m \in 1..MaxIds}

Add(c) ==
    /\ CanCall(c)
    /\ \E ids \in SeqsUpTo(Ids, MaxIds), e \in EmbLists(Gen),
         m \in Lists(JObj(Gen)), d \in Lists(Doc(Gen)) :
         \E gen \in embed_documents(UnwrapOr(d, <<>>)) :
            AddCall(c, ids, e, m, d, gen)

Update(c) ==
    /\ CanCall(c)
    /\ \E ids \in SeqsUpTo(Ids, MaxIds), e \in EmbLists(Gen),
         m \in Lists(JObj(Gen)), d \in Lists(Doc(Gen)) :
         \E gen \in embed_documents(UnwrapOr(d, <<>>)) :
            Begin(c, "update", DmlArgs(ids, e, m, d),
                  UpdateResolve(ef, gen, ids, e, m, d),
                  IF Len(ids) = 0 THEN "done" ELSE "update_row")

Upsert(c) ==
    /\ CanCall(c)
    /\ \E ids \in SeqsUpTo(Ids, MaxIds), e \in EmbLists(Gen),
         m \in Lists(JObj(Gen)), d \in Lists(Doc(Gen)) :
         \E gen \in embed_documents(UnwrapOr(d, <<>>)) :
            UpsertCall(c, ids, e, m, d, gen)

\* the filters a delete passes: plain comparisons, a negation, and the
\* degenerate And / Or with no children
Delete(c) ==
    /\ CanCall(c)
    /\ \E ids \in {None} \cup {Some(l) : l \in SeqsUpTo(Ids, MaxIds)} :
         \E wm \in {None, Some(Eq("x", JNum(1))), Some(Not(Eq("x", JNum(1)))),
                    Some(And(<<>>))},
            wd \in {None, Some(Contains(Doc(1))), Some(Or(<<>>))} :
            Begin(c, "delete", [ids |-> ids, where_meta |-> wm, where_doc |-> wd],
                  DeleteResolve(ids, wm, wd), "delete_exec")

\* the inputs of the searches: a vector of the collection's dimension or one
\* too short, one or two texts, a comparison / an And without children as the
\* metadata filter, a Contains / a Regex as the document filter
SearchMetaFilters == {None, Some(Eq("x", JNum(1))), Some(And(<<>>))}
SearchDocFilters == {None, Some(Contains(Doc(1))), Some(Regex(Doc(1)))}
Optional(S) == {None} \cup {Some(x) : x \in S}
\* include: the default, no field, the embeddings, every field
Includes ==
    {None, Some({}), Some({"Embeddings"}), Some({"Documents", "Metadatas", "Embeddings"})}

\* rows for the searches to find
AddRows(c) ==
    /\ CanCall(c)
    /\ \E ids \in {<<"a">>, <<"a", "b">>} :
          AddCall(c, ids, Some([k \in 1..Len(ids) |-> Vec(Gen)]),
                  Some([k \in 1..Len(ids) |-> JObj(Gen)]),
                  Some([k \in 1..Len(ids) |-> Doc(Gen)]),
                  EfResult("constant", <<>>))

\* a row another writer of the table stored between two calls: the columns
\* document, embedding and metadata are nullable
ForeignInsert ==
    /\ \A c \in Clients : pc[c] = "idle"
    /\ \E id \in Ids :
          /\ rows[id] = NoRow
          /\ rows' = [rows EXCEPT ![id] = Row(SqlNull, SqlNull, SqlNull)]
    /\ UNCHANGED <<ef, pc, op, args, idx, resolved, existing, final, stale, result, log,
                   efCalls, rows0, session, seen, parm, qfilter, out, ncalls>>

Get(c) ==
    /\ CanCall(c)
    /\ \E ids \in {None, Some(<<"a">>)}, wm \in SearchMetaFilters, wd \in SearchDocFilters,
          limit \in {None, Some(1)}, include \in Includes :
          GetCall(c, "get", ids, wm, wd, limit, include)

Peek(c) ==
    /\ CanCall(c)
    /\ \E limit \in 1..MaxIds :
          GetCall(c, "peek", None, None, None, Some(limit),
                  Some({"Documents", "Metadatas", "Embeddings"}))

QueryEmbeddings(c) ==
    /\ CanCall(c)
    /\ \E embs \in {<<>>, <<Vec(1)>>, <<ShortVec>>, <<Vec(1), Vec(1)>>,
                      <<Vec(1), Vec(2)>>}, n \in 1..MaxIds, wm \in SearchMetaFilters,
          wd \in SearchDocFilters, include \in Includes :
          LET r == query_embeddings(embs, wm, wd, 0)
          IN  Begin(c, "query_embeddings", QueryArgs(embs, n, wm, wd, include), r, r.first)

QueryTexts(c) ==
    /\ CanCall(c)
    /\ \E texts \in {<<>>, <<Doc(1)>>, <<Doc(1), Doc(1)>>}, wm \in SearchMetaFilters, wd \in SearchDocFilters,
          include \in Includes :
         \E gen \in embed_documents(texts) :
            LET r == query_texts(ef, gen, texts, wm, wd, 0)
            IN  Begin(c, "query_texts", QueryArgs(texts, 1, wm, wd, include), r, r.first)

HybridSearch(c) ==
    /\ CanCall(c)
    /\ \E queries \in {<<>>, <<Doc(1)>>, <<Doc(1), Doc(1)>>}, sp \in Optional({JObj(1)}),
          wm \in SearchMetaFilters, wd \in SearchDocFilters, include \in Includes :
         \E gen \in embed_documents(IF FastPath(queries, sp, wm, wd)
                                    THEN queries
                                    ELSE IF Len(queries) = 0 THEN <<>>
                                    ELSE <<queries[1]>>) :
            HybridSearchCall(c, queries, sp, wm, wd, 1, include, gen)

HybridSearchAdvanced(c) ==
    /\ CanCall(c)
    /\ \E query \in Optional({HybridQuery(wm, wd) :
                                  wm \in SearchMetaFilters, wd \in SearchDocFilters}),
          knn \in Optional({HybridKnn(t, e, wm, None) :
                  t \in {None, Some(<<>>), Some(<<Doc(1), Doc(1)>>)},
                  e \in {None, Some(<<>>), Some(<<Vec(1)>>), Some(<<ShortVec>>)},
                  wm \in {None, Some(Eq("x", JNum(1)))}}),
          rank \in Optional({Rrf(None, None)}),
          include \in Includes :
         \E gen \in embed_documents(IF ~query.some /\ ~rank.some
                                    THEN TextsOf(knn)
                                    ELSE IF Len(TextsOf(knn)) = 0 THEN <<>>
                                    ELSE <<TextsOf(knn)[1]>>) :
            HybridSearchAdvancedCall(c, query, knn, rank, 1, include, gen)

NextSearch ==
    \/ AddRows(1)
    \/ AddInsert(1)
    \/ QueryEmbeddings(1)
    \/ QueryTexts(1)
    \/ QuerySelect(1)
    \/ HybridSearch(1)
    \/ HybridSearchAdvanced(1)
    \/ HybridSet(1)
    \/ HybridGetSql(1)
    \/ HybridRun(1)
    \/ FallbackGet(1)
    \/ Get(1)
    \/ Peek(1)
    \/ GetSelect(1)
    \/ ForeignInsert
    \/ Return(1)

SpecSearch == Init /\ [][NextSearch]_vars

Next ==
    \/ Add(1)
    \/ AddInsert(1)
    \/ Update(1)
    \/ UpdateRow(1)
    \/ Upsert(1)
    \/ UpsertRead(1)
    \/ UpsertWrite(1)
    \/ Delete(1)
    \/ DeleteExec(1)
    \/ Return(1)

Spec == Init /\ [][Next]_vars

(* ------------------------------------------------------------------ *)
(* The WHERE-clause compiler on its own                                 *)
(* ------------------------------------------------------------------ *)
\* build_where_clause applied to a metadata filter, a document filter and an
\* id list: every node kind, nested, with no child, with an empty value list;
\* the values are all different so that their order shows in params
BuildWhere(c) ==
    /\ CanCall(c)
    /\ \E filter \in Optional({Eq("x", JNum(1)), Ne("x", JNum(1)), Gte("x", JNum(1)),
                                In("x", <<JNum(1), JNum(2)>>), Nin("x", <<>>), And(<<>>),
                                Not(Or(<<>>)), Not(Not(Lte("x", JNum(1)))),
                                And(<<Eq("x", JNum(1)), In("x", <<JNum(2), JNum(3)>>)>>),
                                And(<<Or(<<>>), Lt("x", JNum(1))>>),
                                Or(<<Gt("x", JNum(1)),
                                     Not(And(<<Nin("x", <<JNum(2)>>), Eq("x", JNum(3))>>)),
                                     Eq("x", JNum(4))>>)}),
          doc_filter \in Optional({Contains("1"), Regex("1"), And(<<>>), Or(<<>>),
                                    And(<<Contains("1"), Or(<<Regex("2"), Contains("3")>>)>>),
                                    Or(<<And(<<>>), Regex("1")>>)}),
          ids \in Optional({<<>>, <<"a">>, <<"b", "a">>}) :
          /\ args' = [args EXCEPT ![c] = [ids |-> <<>>, only |-> ids, where_meta |-> filter,
                                          where_doc |-> doc_filter]]
          /\ out' = [out EXCEPT ![c] = build_where_clause(filter, doc_filter, ids)]
    /\ op' = [op EXCEPT ![c] = "build_where_clause"]
    /\ pc' = [pc EXCEPT ![c] = "done"]
    /\ result' = [result EXCEPT ![c] = Ok]
    /\ ncalls' = [ncalls EXCEPT ![c] = @ + 1]
    /\ UNCHANGED <<rows, ef, idx, resolved, existing, final, stale, log, efCalls, rows0, session, seen,
                   parm, qfilter>>

NextWhere ==
    \/ BuildWhere(1)
    \/ Return(1)

SpecWhere == Init /\ [][NextWhere]_vars

(* ------------------------------------------------------------------ *)
(* The search-parameter assembler on its own                            *)
(* ------------------------------------------------------------------ *)
\* build_metadata_filter_for_search_parm applied to a filter: every node
\* kind, And / Or with no, one and two children, nested
BuildMetadataFilter(c) ==
    /\ CanCall(c)
    /\ \E filter \in {Eq("x", JNum(1)), Ne("x", JNum(1)), Gt("x", JNum(1)), Gte("x", JNum(1)),
                      Lt("x", JNum(1)), Lte("x", JNum(1)), In("x", <<JNum(1), JNum(2)>>),
                      Nin("x", <<JNum(1)>>), Not(Eq("x", JNum(1))), Not(And(<<>>)),
                      And(<<>>), Or(<<>>), And(<<Eq("x", JNum(1))>>), Or(<<Gt("x", JNum(1))>>),
                      And(<<Eq("x", JNum(1)), Lt("y", JNum(2))>>),
                      Or(<<Eq("x", JNum(1)), Ne("y", JNum(2))>>),
                      And(<<Or(<<>>), In("x", <<JNum(1)>>)>>),
                      Or(<<And(<<Eq("x", JNum(1)), Eq("y", JNum(2))>>), Not(Or(<<>>))>>)} :
          /\ args' = [args EXCEPT ![c] = [ids |-> <<>>, filter |-> filter]]
          /\ out' = [out EXCEPT ![c] =
                       [conditions |-> build_metadata_filter_for_search_parm(filter)]]
    /\ op' = [op EXCEPT ![c] = "build_metadata_filter_for_search_parm"]
    /\ pc' = [pc EXCEPT ![c] = "done"]
    /\ result' = [result EXCEPT ![c] = Ok]
    /\ ncalls' = [ncalls EXCEPT ![c] = @ + 1]
    /\ UNCHANGED <<rows, ef, idx, resolved, existing, final, stale, log, efCalls, rows0, session, seen,
                   parm, qfilter>>

\* hybrid_search_advanced with every shape of query and knn: a comparison, an
\* And of two, an And of none as metadata filter; a Contains, a Regex, Ands /
\* Ors with and without Contains as document filter; texts and vectors absent,
\* empty, two different ones, a vector too short; k given or not
HybridSearchAdvancedTyped(c) ==
    /\ CanCall(c)
    /\ \E query \in Optional({HybridQuery(wm, wd) :
                    wm \in {None, Some(Eq("x", JNum(1))), Some(And(<<>>)),
                            Some(And(<<Eq("x", JNum(1)), Gt("y", JNum(2))>>))},
                    wd \in {None, Some(Contains("1")), Some(Regex("1")), Some(And(<<>>)),
                            Some(Or(<<Regex("1"), Regex("2")>>)),
                            Some(And(<<Contains("1"), Contains("2")>>))}}),
          knn \in Optional({HybridKnn(t, e, wm, n) :
                    t \in {None, Some(<<>>), Some(<<"1", "2">>)},
                    e \in {None, Some(<<>>), Some(<<Vec(1), Vec(2)>>), Some(<<ShortVec, Vec(1)>>)},
                    wm \in {None, Some(Eq("x", JNum(1))), Some(And(<<>>))},
                    n \in {None, Some(2)}}),
          rank \in Optional({Rrf(None, None)}) :
         \E gen \in embed_documents(IF ~query.some /\ ~rank.some
                                    THEN TextsOf(knn)
                                    ELSE IF Len(TextsOf(knn)) = 0 THEN <<>>
                                    ELSE <<TextsOf(knn)[1]>>) :
            HybridSearchAdvancedCall(c, query, knn, rank, 1, None, gen)

NextParm ==
    \/ BuildMetadataFilter(1)
    \/ HybridSearchAdvancedTyped(1)
    \/ HybridSet(1)
    \/ HybridGetSql(1)
    \/ HybridRun(1)
    \/ QuerySelect(1)
    \/ FallbackGet(1)
    \/ Return(1)

SpecParm == Init /\ [][NextParm]_vars

(* ------------------------------------------------------------------ *)
(* Hybrid searches on the connection pool                               *)
(* ------------------------------------------------------------------ *)
\* ServerClient::execute and fetch_all run each statement on `&self.pool`: the
\* pool hands the statement any of its connections, and @search_parm is a user
\* variable of the connection that ran the SET.

\* SET @search_parm = '<json>', on the connection the pool hands out
PoolSet(c) ==
    /\ pc[c] = "hybrid_set"
    /\ \/ \E conn \in Conns :
             /\ Send(c, Stmt("SET", "", {}, <<>>, TRUE))
             /\ session' = [session EXCEPT ![conn] = parm[c]]
             /\ pc' = [pc EXCEPT ![c] = "hybrid_get_sql"]
             /\ UNCHANGED <<result, resolved, qfilter, efCalls, idx>>
       \/ \E err \in {SqlError, InvalidArgument} :
             /\ Send(c, Stmt("SET", "", {}, <<>>, FALSE))
             /\ HybridFail(c, err)
             /\ UNCHANGED session
    /\ UNCHANGED <<rows, ef, op, args, existing, final, stale, rows0, seen, parm, out, ncalls>>

\* SELECT DBMS_HYBRID_SEARCH.GET_SQL(table, @search_parm), on the connection the
\* pool hands out: the statement reads the @search_parm of that connection
PoolGetSql(c) ==
    /\ pc[c] = "hybrid_get_sql"
    /\ \/ \E conn \in Conns, query_sql \in {"none", "empty", "sql"} :
             /\ Send(c, Stmt("GET_SQL", "", {}, <<>>, TRUE))
             /\ seen' = [seen EXCEPT ![c] = Some(session[conn])]
             /\ IF query_sql = "sql"
                THEN /\ pc' = [pc EXCEPT ![c] = "hybrid_run"]
                     /\ UNCHANGED <<result, out>>
                ELSE /\ out' = [out EXCEPT ![c] = empty_query_result(args[c].include)]
                     /\ Finish(c, Ok)
             /\ UNCHANGED <<resolved, qfilter, efCalls, idx>>
       \/ \E err \in {SqlError, InvalidArgument} :
             /\ Send(c, Stmt("GET_SQL", "", {}, <<>>, FALSE))
             /\ HybridFail(c, err)
             /\ UNCHANGED <<out, seen>>
    /\ UNCHANGED <<rows, ef, op, args, existing, final, stale, rows0, session, parm, ncalls>>

\* hybrid_search with the search_params of the caller: client c passes {"x": c}
PoolSearch(c) ==
    /\ CanCall(c)
    /\ \E gen \in embed_documents(<<>>) :
          HybridSearchCall(c, <<>>, Some(JObj(c)), None, None, 1, None, gen)

NextPool ==
    \E c \in Clients :
       \/ PoolSearch(c)
       \/ PoolSet(c)
       \/ PoolGetSql(c)
       \/ HybridRun(c)
       \/ Return(c)

SpecPool == Init /\ [][NextPool]_vars

(* ------------------------------------------------------------------ *)
(* Two clients on one id                                                *)
(* ------------------------------------------------------------------ *)
\* One Collection handle shared by two tasks: their calls interleave at every
\* `.await`.  Both work on the id "a": add creates the row, upsert passes
\* metadata and / or embeddings (absent, empty or one vector).
AddOne(c) ==
    /\ CanCall(c)
    /\ AddCall(c, <<"a">>, Some(<<Vec(Gen)>>), Some(<<JObj(Gen)>>), Some(<<Doc(Gen)>>),
               EfResult("constant", <<Doc(Gen)>>))

UpsertOne(c) ==
    /\ CanCall(c)
    /\ \E e \in {None, Some(<<>>), Some(<<Vec(Gen)>>)}, m \in {None, Some(<<JObj(Gen)>>)} :
          UpsertCall(c, <<"a">>, e, m, None, EfResult("constant", <<>>))

NextConc ==
    \E c \in Clients :
        \/ AddOne(c)
        \/ AddInsert(c)
        \/ UpsertOne(c)
        \/ UpsertRead(c)
        \/ UpsertWrite(c)
        \/ Return(c)

SpecConc == Init /\ [][NextConc]_vars

(* ------------------------------------------------------------------ *)
(* Properties of delete                                                 *)
(* ------------------------------------------------------------------ *)
\* C1: every DELETE statement that delete sends carries a non-empty WHERE
\* clause, and a delete that has returned either returned InvalidInput having
\* sent nothing or sent exactly one DELETE.
C1_EveryDeleteIsRestricted ==
    \A c \in Clients :
        /\ \A k \in 1..Len(log[c]) :
              log[c][k].kind = "DELETE" => log[c][k].clause # <<>>
        /\ op[c] = "delete" /\ pc[c] = "done" =>
              \/ result[c].kind = "InvalidInput" /\ log[c] = <<>>
              \/ Len(log[c]) = 1

\* C2: delete with ids, where_meta and where_doc all absent returns
\* InvalidInput, sends nothing and leaves the rows as they were; delete with
\* ids present and no filter is not refused as invalid input.
C2_DeleteNeedsOneCondition ==
    \A c \in Clients :
        op[c] = "delete" =>
            LET a == args[c]
            IN  /\ ~a.ids.some /\ ~a.where_meta.some /\ ~a.where_doc.some =>
                      /\ pc[c] = "done"
                      /\ result[c].kind = "InvalidInput"
                      /\ log[c] = <<>>
                      /\ rows = rows0[c]
                /\ a.ids.some /\ ~a.where_meta.some /\ ~a.where_doc.some =>
                      result[c].kind # "InvalidInput"

\* a delete without any condition was refused while the table held a row
C2_Witness ==
    /\ op[1] = "delete" /\ pc[1] = "done"
    /\ ~args[1].ids.some /\ ~args[1].where_meta.some /\ ~args[1].where_doc.some
    /\ result[1].kind = "InvalidInput"
    /\ \E id \in Ids : rows[id] # NoRow

(* ------------------------------------------------------------------ *)
(* Properties of add, update and upsert                                 *)
(* ------------------------------------------------------------------ *)
\* C3: every stored row's embedding has exactly `dimension` components.
C3_StoredEmbeddingsHaveDimension ==
    \A id \in Ids :
        rows[id] # NoRow =>
            /\ ~rows[id].embedding.null
            /\ Len(parse_vector_string(rows[id].embedding.text)) = dimension

C6_AddInsertsInOrderNoRollback ==
    \A c \in Clients :
        op[c] = "add" =>
            LET a == args[c]
                n == Len(log[c])
            IN  /\ n <= Len(a.ids)
                /\ \A k \in 1..n :
                      /\ log[c][k].kind = "INSERT"
                      /\ log[c][k].id = a.ids[k]
                      /\ k < n => log[c][k].ok
                /\ n > 0 /\ ~log[c][n].ok =>
                      /\ pc[c] = "done"
                      /\ result[c] = SqlError
                      /\ \A k \in 1..(n - 1) :
                            /\ rows[a.ids[k]] # NoRow
                            /\ RowSets(rows[a.ids[k]]) = log[c][k].sets
                /\ pc[c] = "done" /\ result[c] = Ok => n = Len(a.ids)

\* the second INSERT of an add failed in the backend: the first row is stored,
\* the second is not
C6_Witness ==
    /\ op[1] = "add" /\ pc[1] = "done" /\ result[1] = SqlError
    /\ Len(log[1]) = 2 /\ log[1][1].ok /\ ~log[1][2].ok
    /\ args[1].ids[1] # args[1].ids[2]
    /\ rows0[1][args[1].ids[1]] = NoRow
    /\ rows[args[1].ids[1]] # NoRow
    /\ rows[args[1].ids[2]] = NoRow

\* C8: an add with explicit embeddings whose count differs from the count of
\* ids, or one of whose vectors has not `dimension` components, returns
\* InvalidInput and inserts no row.
C8_AddRejectsBadEmbeddings ==
    \A c \in Clients :
        /\ op[c] = "add" /\ pc[c] = "done"
        /\ args[c].embeddings.some
        /\ \/ Len(args[c].embeddings.v) # Len(args[c].ids)
           \/ WrongDimension(args[c].embeddings.v)
        => /\ result[c].kind = "InvalidInput"
           /\ log[c] = <<>>
           /\ rows = rows0[c]

\* C9: add stores the explicit embeddings when given, without invoking the
\* embedding function; else, with documents and an embedding function, it
\* invokes the function once and stores the generated vectors, which have
\* passed the count and dimension checks; else it fails and inserts nothing.
C9_AddEmbeddingPrecedence ==
    \A c \in Clients :
        op[c] = "add" =>
            LET a == args[c]
                shapeOk == /\ Len(a.ids) > 0
                           /\ ~LengthMismatch(a.documents, a.ids)
                           /\ ~LengthMismatch(a.metadatas, a.ids)
            IN  /\ a.embeddings.some =>
                      /\ efCalls[c] = 0
                      /\ \A k \in 1..Len(log[c]) :
                            <<"embedding", SqlText(vector_to_string(a.embeddings.v[k]))>>
                                \in log[c][k].sets
                /\ ~a.embeddings.some /\ a.documents.some /\ ef # "none" /\ shapeOk =>
                      /\ efCalls[c] = 1
                      /\ log[c] # <<>> =>
                            /\ Len(resolved[c].v) = Len(a.ids)
                            /\ ~WrongDimension(resolved[c].v)
                      /\ \A k \in 1..Len(log[c]) :
                            <<"embedding", SqlText(vector_to_string(resolved[c].v[k]))>>
                                \in log[c][k].sets
                /\ ~a.embeddings.some /\ (~a.documents.some \/ ef = "none") =>
                      /\ pc[c] = "done"
                      /\ result[c].kind = "InvalidInput"
                      /\ efCalls[c] = 0
                      /\ log[c] = <<>>
                      /\ rows = rows0[c]

\* an add given embeddings and documents on a collection with an embedding
\* function stored the explicit vector and never invoked the function
C9_Witness ==
    /\ op[1] = "add" /\ pc[1] = "done" /\ result[1] = Ok
    /\ args[1].embeddings.some /\ args[1].documents.some /\ ef # "none"
    /\ efCalls[1] = 0
    /\ rows[args[1].ids[1]] # NoRow
    /\ rows[args[1].ids[1]].embedding
          = SqlText(vector_to_string(args[1].embeddings.v[1]))
    /\ args[1].embeddings.v[1] # Vec(0)

\* C10: what upsert merges for an id is, for each of document, metadata and
\* embedding on its own, the new value if the call provides one, else the
\* value read from the row if there is one, else null / absent.
C10_MergePerField ==
    \A c \in Clients :
        pc[c] = "upsert_write" =>
            LET i == idx[c]
                nd == GetAt(args[c].documents, i)
                nm == GetAt(args[c].metadatas, i)
                ne == GetAt(resolved[c], i)
                ex == existing[c]
            IN  /\ final[c].doc = (IF nd.some THEN nd ELSE IF ex.exists THEN ex.doc ELSE None)
                /\ final[c].meta = (IF nm.some THEN nm.v ELSE IF ex.exists THEN ex.meta.v ELSE JNull)
                /\ final[c].emb = (IF ne.some THEN ne ELSE IF ex.exists THEN ex.emb ELSE None)

\* a stored row merged with a new metadata only: the merge has the row's
\* document, the new metadata and the row's embedding
C10_Witness ==
    /\ pc[1] = "upsert_write" /\ existing[1].exists
    /\ ~args[1].documents.some /\ ~resolved[1].some
    /\ GetAt(args[1].metadatas, idx[1]).some
    /\ final[1].doc = existing[1].doc
    /\ final[1].meta = args[1].metadatas.v[idx[1]]
    /\ final[1].meta # existing[1].meta.v
    /\ final[1].emb = existing[1].emb
    /\ Len(final[1].emb.v) = dimension

(* ------------------------------------------------------------------ *)
(* Properties of concurrent upserts                                     *)
(* ------------------------------------------------------------------ *)
\* C5: upsert neither retries nor detects a conflict: for each id it sends at
\* most one SELECT and one write, the write directly after its read, and a
\* write made after the row changed under the call still carries the merge of
\* the row as it was read, and the call returns Ok.
C5_NoRetryNoConflictDetection ==
    \A c \in Clients :
        op[c] = "upsert" =>
            LET n == Len(log[c])
            IN  /\ n <= 2 * idx[c]
                /\ \A k \in 1..n :
                      log[c][k].kind # "SELECT" =>
                          /\ k > 1
                          /\ log[c][k - 1] = Stmt("SELECT", log[c][k].id, {},
                                                  log[c][k - 1].clause, TRUE)
                /\ pc[c] = "done" /\ stale[c] /\ n > 0 /\ log[c][n].kind = "UPDATE" /\ log[c][n].ok =>
                      /\ result[c] = Ok
                      /\ log[c][n].sets =
                            UpsertSets(args[c], resolved[c],
                                       Merged(args[c], resolved[c], existing[c], idx[c]))

\* a lost update: client 2 wrote its vector and returned Ok; client 1, which
\* had read the row before that write, wrote back the vector it had read and
\* returned Ok as well, so the vector of client 2 is gone
C5_Witness ==
    /\ op[1] = "upsert" /\ pc[1] = "done" /\ result[1] = Ok /\ stale[1]
    /\ op[2] = "upsert" /\ pc[2] = "done" /\ result[2] = Ok
    /\ args[2].embeddings.some /\ Len(args[2].embeddings.v) = 1
    /\ Len(log[2]) = 2 /\ log[2][2].kind = "UPDATE" /\ log[2][2].ok
    /\ <<"embedding", SqlText(vector_to_string(args[2].embeddings.v[1]))>> \in log[2][2].sets
    /\ existing[1].exists
    /\ rows["a"].embedding = SqlText(vector_to_string(existing[1].emb.v))
    /\ rows["a"].embedding # SqlText(vector_to_string(args[2].embeddings.v[1]))

(* ------------------------------------------------------------------ *)
(* Properties of input validation                                       *)
(* ------------------------------------------------------------------ *)
\* C7: a call that has returned InvalidInput has sent no statement to the
\* backend and has left the stored rows as they were.
C7_InvalidInputBeforeAnyStatement ==
    \A c \in Clients :
        pc[c] = "done" /\ result[c].kind = "InvalidInput" =>
            /\ log[c] = <<>>
            /\ rows = rows0[c]


(* ------------------------------------------------------------------ *)
(* Properties of update                                                 *)
(* ------------------------------------------------------------------ *)
\* C11 as stated: update without any of embeddings, documents and metadatas
\* returns InvalidInput; otherwise it sends one UPDATE per id whose SET list
\* is exactly the columns whose list the caller passed, every other column
\* and every other row stay as they were, and no row is created.
C11_UpdateSetsExactlyPassedColumns ==
    \A c \in Clients :
        op[c] = "update" =>
            LET a == args[c]
                passed == (IF a.documents.some THEN {"document"} ELSE {})
                          \cup (IF a.metadatas.some THEN {"metadata"} ELSE {})
                          \cup (IF a.embeddings.some THEN {"embedding"} ELSE {})
            IN  /\ passed = {} => pc[c] = "done" /\ result[c].kind = "InvalidInput"
                /\ \A k \in 1..Len(log[c]) :
                      /\ log[c][k].kind = "UPDATE"
                      /\ log[c][k].id = a.ids[k]
                      /\ Columns(log[c][k].sets) = passed
                /\ pc[c] = "done" /\ result[c] = Ok => Len(log[c]) = Len(a.ids)
                /\ \A id \in Ids :
                      IF rows0[c][id] = NoRow THEN rows[id] = NoRow
                      ELSE /\ rows[id] # NoRow
                           /\ \A col \in {"document", "metadata", "embedding"} \ passed :
                                 rows[id][col] = rows0[c][id][col]
                           /\ (\A k \in 1..Len(a.ids) : a.ids[k] # id) => rows[id] = rows0[c][id]

\* C11 amended: update without any of embeddings, documents and metadatas
\* returns InvalidInput and sends nothing; otherwise the statements it sends
\* are UPDATEs for ids[0], ids[1], ... in order, each setting exactly the
\* columns for which the caller passed a value for that id and, when documents
\* are passed without embeddings on a collection that has an embedding
\* function, the embedding column as well; when no column is to be set (the
\* passed lists are empty) no statement is sent; every other column and every
\* other row stay as they were, and no row is created.
C11_UpdateSetsPassedAndGeneratedColumns ==
    \A c \in Clients :
        op[c] = "update" =>
            LET a == args[c]
                written == (IF a.documents.some /\ a.documents.v # <<>> THEN {"document"} ELSE {})
                           \cup (IF a.metadatas.some /\ a.metadatas.v # <<>> THEN {"metadata"} ELSE {})
                           \cup (IF a.embeddings.some \/ (a.documents.some /\ ef # "none")
                                 THEN {"embedding"} ELSE {})
            IN  /\ ~a.documents.some /\ ~a.metadatas.some /\ ~a.embeddings.some =>
                      pc[c] = "done" /\ result[c].kind = "InvalidInput" /\ log[c] = <<>>
                /\ \A k \in 1..Len(log[c]) :
                      /\ log[c][k].kind = "UPDATE"
                      /\ log[c][k].id = a.ids[k]
                      /\ Columns(log[c][k].sets) = written
                /\ pc[c] = "done" /\ result[c] = Ok =>
                      Len(log[c]) = IF written = {} THEN 0 ELSE Len(a.ids)
                /\ \A id \in Ids :
                      IF rows0[c][id] = NoRow THEN rows[id] = NoRow
                      ELSE /\ rows[id] # NoRow
                           /\ \A col \in {"document", "metadata", "embedding"} \ written :
                                 rows[id][col] = rows0[c][id][col]
                           /\ (\A k \in 1..Len(a.ids) : a.ids[k] # id) => rows[id] = rows0[c][id]

\* a documents-only update on a collection with an embedding function returned
\* Ok on a stored row: the document and the embedding changed, the metadata
\* did not, and the id that had no row still has none
C11_Witness ==
    /\ op[1] = "update" /\ pc[1] = "done" /\ result[1] = Ok
    /\ args[1].documents.some /\ ~args[1].metadatas.some /\ ~args[1].embeddings.some
    /\ args[1].ids = <<"a", "b">>
    /\ rows0[1]["a"] # NoRow /\ rows0[1]["b"] = NoRow /\ rows["b"] = NoRow
    /\ rows["a"].document # rows0[1]["a"].document
    /\ rows["a"].embedding # rows0[1]["a"].embedding
    /\ rows["a"].metadata = rows0[1]["a"].metadata
    /\ Len(log[1]) = 2


\* C12: update and upsert return InvalidInput when ids is empty, when a
\* non-empty documents or metadatas list has not the length of ids, when the
\* embeddings list has not the length of ids, and when an embedding has not
\* `dimension` components.
C12_UpdateUpsertValidateLikeAdd ==
    \A c \in Clients :
        /\ op[c] \in {"update", "upsert"}
        /\ \/ Len(args[c].ids) = 0
           \/ LengthMismatch(args[c].documents, args[c].ids)
           \/ LengthMismatch(args[c].metadatas, args[c].ids)
           \/ /\ args[c].embeddings.some
              /\ \/ Len(args[c].embeddings.v) # Len(args[c].ids)
                 \/ WrongDimension(args[c].embeddings.v)
        => pc[c] = "done" /\ result[c].kind = "InvalidInput"


(* ------------------------------------------------------------------ *)
(* Properties of the searches                                           *)
(* ------------------------------------------------------------------ *)
\* C13: query_embeddings with no vector returns InvalidInput and sends
\* nothing; with N >= 1 vectors it sends only SELECTs, at most N, and when it
\* returns Ok it has sent N and ids, distances and every included field have N
\* slots, slot i holding the rows selected for vector i (as many as n_results
\* allows, none when nothing matches) with their distances to vector i.
C13_OneSlotPerQueryVector ==
    \A c \in Clients :
        op[c] = "query_embeddings" =>
            LET a == args[c]
                N == Len(a.queries)
                S == Selected(rows, a.where_meta, a.where_doc, None)
                r == out[c]
            IN  /\ N = 0 => pc[c] = "done" /\ result[c].kind = "InvalidInput" /\ log[c] = <<>>
                /\ Len(log[c]) <= N
                /\ \A k \in 1..Len(log[c]) : log[c][k].kind = "SELECT"
                /\ pc[c] = "done" /\ result[c] = Ok =>
                      /\ N >= 1 /\ Len(log[c]) = N
                      /\ Len(r.ids) = N
                      /\ r.distances.some /\ Len(r.distances.v) = N
                      /\ r.documents.some <=> include_documents(a.include)
                      /\ r.metadatas.some <=> include_metadatas(a.include)
                      /\ r.embeddings.some <=> include_embeddings(a.include)
                      /\ r.documents.some => Len(r.documents.v) = N
                      /\ r.metadatas.some => Len(r.metadatas.v) = N
                      /\ r.embeddings.some => Len(r.embeddings.v) = N
                      /\ \A i \in 1..N :
                            /\ Len(r.ids[i]) = (IF a.n_results < Cardinality(S)
                                                THEN a.n_results ELSE Cardinality(S))
                            /\ Len(r.distances.v[i]) = Len(r.ids[i])
                            /\ \A j \in 1..Len(r.ids[i]) :
                                  /\ r.ids[i][j] \in S
                                  /\ r.distances.v[i][j] =
                                        IF rows[r.ids[i][j]].embedding.null THEN 0
                                        ELSE l2_distance(StoredVector(rows[r.ids[i][j]]),
                                                         a.queries[i])

\* two different vectors were queried: the result has two slots, each with a
\* row, at different distances
C13_Witness ==
    /\ op[1] = "query_embeddings" /\ pc[1] = "done" /\ result[1] = Ok
    /\ Len(args[1].queries) = 2 /\ args[1].queries[1] # args[1].queries[2]
    /\ Len(out[1].ids) = 2 /\ Len(out[1].ids[1]) = 2 /\ Len(out[1].ids[2]) = 2
    /\ out[1].distances.v[1] # out[1].distances.v[2]
    /\ out[1].documents.some /\ Len(out[1].documents.v) = 2


\* C14: in every result a search, get or peek returns, each included array of
\* a slot is as long as the slot's ids and its entry j is the value of the row
\* of ids[j] (whatever the row holds, NULLs included), and a QueryResult
\* always has distances, as long as ids in every slot.
C14_ParallelArrays ==
    \A c \in Clients :
        pc[c] = "done" /\ result[c] = Ok
        /\ op[c] \in {"query_embeddings", "query_texts", "hybrid_search",
                      "hybrid_search_advanced", "get", "peek"} =>
            LET r == out[c]
                single == op[c] \in {"get", "peek"}
                slots == IF single THEN <<r.ids>> ELSE r.ids
                Slots(field) == IF single THEN <<field.v>> ELSE field.v
            IN  /\ ~single => r.distances.some /\ Len(r.distances.v) = Len(slots)
                /\ \A i \in 1..Len(slots) :
                      LET v == RowValues(rows, slots[i])
                      IN  /\ ~single => Len(r.distances.v[i]) = Len(slots[i])
                          /\ r.documents.some =>
                                /\ Len(Slots(r.documents)) = Len(slots)
                                /\ Slots(r.documents)[i] = v.docs
                          /\ r.metadatas.some =>
                                /\ Len(Slots(r.metadatas)) = Len(slots)
                                /\ Slots(r.metadatas)[i] = v.metas
                          /\ r.embeddings.some =>
                                /\ Len(Slots(r.embeddings)) = Len(slots)
                                /\ Len(Slots(r.embeddings)[i]) = Len(slots[i])
                                /\ \A j \in 1..Len(slots[i]) :
                                      v.embs[j].some =>
                                          Slots(r.embeddings)[i][j] = v.embs[j].v


\* C15: a query_embeddings call in which a query vector has not `dimension`
\* components returns InvalidInput and sends no statement.
C15_QueryRejectsWrongDimension ==
    \A c \in Clients :
        op[c] = "query_embeddings" /\ WrongDimension(args[c].queries) =>
            /\ pc[c] = "done"
            /\ result[c].kind = "InvalidInput"
            /\ log[c] = <<>>


\* C16 as stated: on a collection without an embedding function query_texts
\* returns an Embedding error and sends nothing; with one it invokes the
\* function once, goes on only with one vector of `dimension` components per
\* text, and answers as query_embeddings does for these vectors: one SELECT
\* and one slot per text, the slot of text i holding the rows selected under
\* the same filters and n_results with their distances to vector i.
C16_QueryTextsDelegates ==
    \A c \in Clients :
        op[c] = "query_texts" =>
            LET a == args[c]
                N == Len(a.queries)
                S == Selected(rows, a.where_meta, a.where_doc, None)
                r == out[c]
            IN  /\ ef = "none" =>
                      /\ pc[c] = "done" /\ result[c].kind = "Embedding"
                      /\ log[c] = <<>> /\ efCalls[c] = 0
                /\ N > 0 /\ ef # "none" => efCalls[c] = 1
                /\ log[c] # <<>> \/ (pc[c] = "done" /\ result[c] = Ok) =>
                      /\ resolved[c].some
                      /\ Len(resolved[c].v) = N
                      /\ ~WrongDimension(resolved[c].v)
                /\ \A k \in 1..Len(log[c]) : log[c][k].kind = "SELECT"
                /\ pc[c] = "done" /\ result[c] = Ok =>
                      /\ Len(log[c]) = N
                      /\ Len(r.ids) = N
                      /\ r.distances.some /\ Len(r.distances.v) = N
                      /\ r.documents.some <=> include_documents(a.include)
                      /\ r.metadatas.some <=> include_metadatas(a.include)
                      /\ r.embeddings.some <=> include_embeddings(a.include)
                      /\ \A i \in 1..N :
                            /\ Len(r.ids[i]) = (IF a.n_results < Cardinality(S)
                                                THEN a.n_results ELSE Cardinality(S))
                            /\ Len(r.distances.v[i]) = Len(r.ids[i])
                            /\ \A j \in 1..Len(r.ids[i]) :
                                  /\ r.ids[i][j] \in S
                                  /\ r.distances.v[i][j] =
                                        IF rows[r.ids[i][j]].embedding.null THEN 0
                                        ELSE l2_distance(StoredVector(rows[r.ids[i][j]]),
                                                         resolved[c].v[i])

\* C16 amended: query_texts with no text returns InvalidInput, whether or not
\* the collection has an embedding function; with texts and no embedding
\* function it returns an Embedding error; in both cases nothing is sent and
\* nothing is embedded.  With texts and an embedding function it behaves as
\* C16 states.
C16_QueryTextsDelegatesNonEmpty ==
    \A c \in Clients :
        op[c] = "query_texts" =>
            LET a == args[c]
                N == Len(a.queries)
                S == Selected(rows, a.where_meta, a.where_doc, None)
                r == out[c]
            IN  /\ N = 0 =>
                      /\ pc[c] = "done" /\ result[c].kind = "InvalidInput"
                      /\ log[c] = <<>> /\ efCalls[c] = 0
                /\ N > 0 /\ ef = "none" =>
                      /\ pc[c] = "done" /\ result[c].kind = "Embedding"
                      /\ log[c] = <<>> /\ efCalls[c] = 0
                /\ N > 0 /\ ef # "none" => efCalls[c] = 1
                /\ log[c] # <<>> \/ (pc[c] = "done" /\ result[c] = Ok) =>
                      /\ resolved[c].some
                      /\ Len(resolved[c].v) = N
                      /\ ~WrongDimension(resolved[c].v)
                /\ \A k \in 1..Len(log[c]) : log[c][k].kind = "SELECT"
                /\ pc[c] = "done" /\ result[c] = Ok =>
                      /\ Len(log[c]) = N
                      /\ Len(r.ids) = N
                      /\ r.distances.some /\ Len(r.distances.v) = N
                      /\ r.documents.some <=> include_documents(a.include)
                      /\ r.metadatas.some <=> include_metadatas(a.include)
                      /\ r.embeddings.some <=> include_embeddings(a.include)
                      /\ \A i \in 1..N :
                            /\ Len(r.ids[i]) = (IF a.n_results < Cardinality(S)
                                                THEN a.n_results ELSE Cardinality(S))
                            /\ Len(r.distances.v[i]) = Len(r.ids[i])
                            /\ \A j \in 1..Len(r.ids[i]) :
                                  /\ r.ids[i][j] \in S
                                  /\ r.distances.v[i][j] =
                                        IF rows[r.ids[i][j]].embedding.null THEN 0
                                        ELSE l2_distance(StoredVector(rows[r.ids[i][j]]),
                                                         resolved[c].v[i])

\* two texts were queried on a collection with an embedding function: the
\* function was invoked once and the result has a slot with a row for each text
C16_Witness ==
    /\ op[1] = "query_texts" /\ pc[1] = "done" /\ result[1] = Ok
    /\ ef # "none" /\ efCalls[1] = 1
    /\ Len(args[1].queries) = 2 /\ Len(out[1].ids) = 2
    /\ Len(out[1].ids[1]) = 1 /\ Len(out[1].ids[2]) = 1
    /\ Len(log[1]) = 2


(* ------------------------------------------------------------------ *)
(* Properties of build_where_clause                                     *)
(* ------------------------------------------------------------------ *)
\* C17: the clause build_where_clause returns has as many `?` as params has
\* values, and params is the ids in input order, then the values of the
\* metadata filter in the in-order traversal of its nodes, then the texts of
\* the document filter in in-order traversal.
C17_ParamsFollowPlaceholders ==
    \A c \in Clients :
        op[c] = "build_where_clause" =>
            LET RECURSIVE Values(_)
                Values(f) ==
                    CASE f.op \in CmpOps -> <<f.value>>
                      [] f.op \in {"In", "Nin"} -> f.values
                      [] f.op \in {"And", "Or"} ->
                           Flatten([k \in 1..Len(f.args) |-> Values(f.args[k])])
                      [] f.op = "Not" -> Values(f.arg)
                      [] f.op \in {"Contains", "Regex"} -> <<JStr(f.text)>>
                a == args[c]
                w == out[c]
                idValues == IF a.only.some
                            THEN [k \in 1..Len(a.only.v) |-> JStr(a.only.v[k])] ELSE <<>>
                metaValues == IF a.where_meta.some THEN Values(a.where_meta.v) ELSE <<>>
                docValues == IF a.where_doc.some THEN Values(a.where_doc.v) ELSE <<>>
            IN  /\ Cardinality({k \in 1..Len(w.clause) : w.clause[k] = "?"}) = Len(w.params)
                /\ w.params = idValues \o metaValues \o docValues

\* ids, a nested metadata filter and a nested document filter were compiled
\* together: the clause has six placeholders and params their six values
C17_Witness ==
    /\ op[1] = "build_where_clause" /\ pc[1] = "done"
    /\ args[1].only = Some(<<"b", "a">>)
    /\ args[1].where_meta = Some(And(<<Eq("x", JNum(1)), In("x", <<JNum(2), JNum(3)>>)>>))
    /\ args[1].where_doc = Some(Regex("1"))
    /\ out[1].params = <<JStr("b"), JStr("a"), JNum(1), JNum(2), JNum(3), JStr("1")>>
    /\ Len(out[1].clause) > 6


\* C18: the clause build_where_clause returns never holds an empty pair of
\* parentheses, and when every input is absent, an empty id list or an And /
\* Or without children, the clause is empty and so is params.
C18_NoEmptyGroup ==
    \A c \in Clients :
        op[c] = "build_where_clause" =>
            LET a == args[c]
                Nothing(f) == ~f.some \/ (f.v.op \in {"And", "Or"} /\ f.v.args = <<>>)
            IN  /\ ~MalformedSql(out[c].clause)
                /\ (~a.only.some \/ a.only.v = <<>>) /\ Nothing(a.where_meta)
                   /\ Nothing(a.where_doc) =>
                      out[c].clause = <<>> /\ out[c].params = <<>>


(* ------------------------------------------------------------------ *)
(* Properties of the hybrid searches                                    *)
(* ------------------------------------------------------------------ *)
\* C19: hybrid_search and hybrid_search_advanced never return the
\* invalid-argument error of the backend to the caller (the fallback answers
\* instead), and a call that returns another backend error returns it right
\* after the statement that failed, no statement of the hybrid engine being
\* sent again after one was rejected.
C19_InvalidArgumentNeverSurfaces ==
    \A c \in Clients :
        op[c] \in {"hybrid_search", "hybrid_search_advanced"} /\ pc[c] = "done" =>
            /\ ~is_hybrid_invalid_argument(result[c])
            /\ result[c] = SqlError =>
                  /\ log[c] # <<>>
                  /\ ~log[c][Len(log[c])].ok
                  /\ \A k \in 1..(Len(log[c]) - 1) :
                        ~log[c][k].ok =>
                            /\ log[c][k].kind \in {"SET", "GET_SQL", "HYBRID"}
                            /\ \A j \in (k + 1)..Len(log[c]) : log[c][j].kind = "SELECT"


\* C20: what hybrid_search_advanced returns tells the caller which path
\* answered: an Ok result that the fallback produced (after the hybrid engine
\* rejected a statement) is none of the results the primary path can return
\* for the same include and table.
C20_FallbackResultIsDistinguishable ==
    \A c \in Clients :
        /\ op[c] = "hybrid_search_advanced" /\ pc[c] = "done" /\ result[c] = Ok
        /\ \E k \in 1..Len(log[c]) :
              log[c][k].kind \in {"SET", "GET_SQL", "HYBRID"} /\ ~log[c][k].ok
        => LET stored == {id \in Ids : rows[id] # NoRow}
               primary ==
                   {empty_query_result(args[c].include)} \cup
                   {transform_hybrid_rows(rows, slot, args[c].include, score) :
                        slot \in UNION {AnyOrder(S, Cardinality(S)) : S \in SUBSET stored},
                        score \in {None, Some(1)}}
           IN  out[c] \notin primary


(* ------------------------------------------------------------------ *)
(* Properties of the hybrid searches                                    *)
(* ------------------------------------------------------------------ *)
\* C21: a hybrid_search with N >= 1 query texts that returns Ok returns N
\* outer slots in ids, in distances and in every included field, whatever
\* filters or search_params come with the texts.
C21_HybridSearchOneSlotPerQuery ==
    \A c \in Clients :
        op[c] = "hybrid_search" /\ pc[c] = "done" /\ result[c] = Ok
        /\ Len(args[c].queries) >= 1 =>
            LET N == Len(args[c].queries)
                r == out[c]
            IN  /\ Len(r.ids) = N
                /\ r.distances.some /\ Len(r.distances.v) = N
                /\ r.documents.some => Len(r.documents.v) = N
                /\ r.metadatas.some => Len(r.metadatas.v) = N
                /\ r.embeddings.some => Len(r.embeddings.v) = N


\* C22: the fast paths send no statement of the hybrid engine and answer as
\* the plain searches do.  hybrid_search with texts, no search_params and no
\* filter is query_texts on the texts without filters (an Embedding error
\* with nothing sent when the collection has no embedding function);
\* hybrid_search_advanced with a knn and neither query nor rank is
\* query_embeddings on knn.query_embeddings, else query_texts on
\* knn.query_texts, filtered by knn.where_meta only.
C22_FastPathsBypassHybridEngine ==
    \A c \in Clients :
        LET a == args[c]
            fast == /\ op[c] = "hybrid_search"
                    /\ FastPath(a.queries, a.search_params, a.where_meta, a.where_doc)
            knn_only == /\ op[c] = "hybrid_search_advanced"
                        /\ a.knn.some /\ ~a.query.some /\ ~a.rank.some
            where_meta == IF knn_only THEN a.knn.v.where_meta ELSE None
            vectors == knn_only /\ a.knn.v.query_embeddings.some
            texts == IF fast THEN a.queries ELSE UnwrapOr(a.knn.v.query_texts, <<>>)
            S == Selected(rows, where_meta, None, None)
            r == out[c]
        IN  fast \/ knn_only =>
              /\ \A k \in 1..Len(log[c]) :
                    /\ log[c][k].kind = "SELECT"
                    /\ log[c][k].clause = build_where_clause(where_meta, None, None).clause
              /\ vectors =>
                    /\ efCalls[c] = 0
                    /\ Len(a.knn.v.query_embeddings.v) = 0 =>
                          pc[c] = "done" /\ result[c].kind = "InvalidInput"
                    /\ Len(a.knn.v.query_embeddings.v) # 0 =>
                          resolved[c] = a.knn.v.query_embeddings
              /\ ~vectors =>
                    /\ Len(texts) = 0 =>
                          pc[c] = "done" /\ result[c].kind = "InvalidInput" /\ efCalls[c] = 0
                    /\ Len(texts) # 0 /\ ef = "none" =>
                          /\ pc[c] = "done" /\ result[c].kind = "Embedding"
                          /\ log[c] = <<>> /\ efCalls[c] = 0
                    /\ Len(texts) # 0 /\ ef # "none" => efCalls[c] = 1
                    /\ log[c] # <<>> \/ (pc[c] = "done" /\ result[c] = Ok) =>
                          /\ resolved[c].some
                          /\ Len(resolved[c].v) = Len(texts)
                          /\ ~WrongDimension(resolved[c].v)
              /\ pc[c] = "done" /\ result[c] = Ok =>
                    LET N == Len(resolved[c].v)
                    IN  /\ Len(log[c]) = N
                        /\ Len(r.ids) = N
                        /\ r.distances.some /\ Len(r.distances.v) = N
                        /\ r.documents.some <=> include_documents(a.include)
                        /\ r.metadatas.some <=> include_metadatas(a.include)
                        /\ r.embeddings.some <=> include_embeddings(a.include)
                        /\ \A i \in 1..N :
                              /\ Len(r.ids[i]) = (IF a.n_results < Cardinality(S)
                                                  THEN a.n_results ELSE Cardinality(S))
                              /\ Len(r.distances.v[i]) = Len(r.ids[i])
                              /\ \A j \in 1..Len(r.ids[i]) :
                                    /\ r.ids[i][j] \in S
                                    /\ r.distances.v[i][j] =
                                          IF rows[r.ids[i][j]].embedding.null THEN 0
                                          ELSE l2_distance(StoredVector(rows[r.ids[i][j]]),
                                                           resolved[c].v[i])

\* hybrid_search took its fast path with two texts and returned a slot with a
\* row for each of them, having sent two SELECTs
C22_Witness ==
    /\ op[1] = "hybrid_search" /\ pc[1] = "done" /\ result[1] = Ok
    /\ FastPath(args[1].queries, args[1].search_params, args[1].where_meta, args[1].where_doc)
    /\ Len(args[1].queries) = 2 /\ Len(out[1].ids) = 2
    /\ Len(out[1].ids[1]) = 1 /\ Len(out[1].ids[2]) = 1
    /\ Len(log[1]) = 2


(* ------------------------------------------------------------------ *)
(* Properties of the search-parameter assembler                         *)
(* ------------------------------------------------------------------ *)
\* C23: in the search parameter hybrid_search_advanced assembles, the query
\* part of a query that is only where_meta = Eq(field, v) is the term node
\* of (path(field), v), and the query part of a query that is only where_meta
\* = And of two conditions is a bool/must node whose two children are the
\* compiled nodes of the two conditions, in order.
C23_QueryPartOfMetadataOnlyQuery ==
    \A c \in Clients :
        op[c] = "hybrid_search_advanced" /\ ~parm[c].empty
        /\ args[c].query.some /\ ~args[c].query.v.where_doc.some
        /\ args[c].query.v.where_meta.some =>
            LET f == args[c].query.v.where_meta.v
                q == parm[c].json.query
            IN  /\ f.op = "Eq" => q = Some(Term(meta_path(f.field), f.value))
                /\ f.op = "And" /\ Len(f.args) = 2 =>
                      /\ q.some
                      /\ q.v.node = "bool" /\ q.v.key = "must"
                      /\ Len(q.v.children) = 2
                      /\ \A k \in 1..2 :
                            <<q.v.children[k]>> =
                                build_metadata_filter_for_search_parm(f.args[k])


\* C24: build_metadata_filter_for_search_parm maps Eq to a term node, Ne to
\* bool/must_not of a term, Gt / Gte / Lt / Lte to a range node, In to a terms
\* node, Nin to bool/must_not of a terms node and Not to bool/must_not of the
\* inner conditions; for And (Or) the conditions its children result in are
\* put under bool/must (bool/should) when there are several, returned as they
\* are when there is exactly one, and nothing is returned when there is none.
C24_MetadataFilterCompiler ==
    \A c \in Clients :
        op[c] = "build_metadata_filter_for_search_parm" =>
            LET f == args[c].filter
                conds == out[c].conditions
                path == meta_path(f.field)
                parts == Flatten([k \in 1..Len(f.args) |->
                                    build_metadata_filter_for_search_parm(f.args[k])])
            IN  CASE f.op = "Eq" -> conds = <<Term(path, f.value)>>
                  [] f.op = "Ne" -> conds = <<Bool("must_not", <<Term(path, f.value)>>)>>
                  [] f.op \in {"Gt", "Gte", "Lt", "Lte"} ->
                       /\ Len(conds) = 1 /\ conds[1].node = "range"
                       /\ conds[1].path = path /\ conds[1].value = f.value
                       /\ conds[1].op = (CASE f.op = "Gt" -> "gt" [] f.op = "Gte" -> "gte"
                                           [] f.op = "Lt" -> "lt" [] f.op = "Lte" -> "lte")
                  [] f.op = "In" -> conds = <<Terms(path, f.values)>>
                  [] f.op = "Nin" -> conds = <<Bool("must_not", <<Terms(path, f.values)>>)>>
                  [] f.op = "Not" ->
                       LET sub == build_metadata_filter_for_search_parm(f.arg)
                       IN  conds = IF sub = <<>> THEN <<>> ELSE <<Bool("must_not", sub)>>
                  [] f.op \in {"And", "Or"} ->
                       conds = IF Len(parts) > 1
                               THEN <<Bool(IF f.op = "And" THEN "must" ELSE "should", parts)>>
                               ELSE parts


(* ------------------------------------------------------------------ *)
(* Properties of upsert, continued                                      *)
(* ------------------------------------------------------------------ *)
\* C25: with no other writer, upsert sends for the ids in order a SELECT of
\* the id and then one write: an UPDATE if the id had a row (from before the
\* call or from an earlier place in ids), an INSERT if it had none.  The
\* INSERT carries for each field the value passed for this id (the generated
\* vector for the embedding), else the default: the empty document, JSON
\* null, the empty vector.  After an upsert that returned Ok every id has a
\* row.
C25_UpsertUpdatesFoundInsertsAbsent ==
    \A c \in Clients :
        op[c] = "upsert" =>
            LET a == args[c]
                Found(k) == \/ rows0[c][a.ids[k]] # NoRow
                            \/ \E j \in 1..(k - 1) : a.ids[j] = a.ids[k]
            IN  /\ \A n \in 1..Len(log[c]) :
                      LET k == (n + 1) \div 2
                          s == log[c][n]
                          new_doc == GetAt(a.documents, k)
                          new_meta == GetAt(a.metadatas, k)
                          new_emb == GetAt(resolved[c], k)
                      IN  /\ k <= Len(a.ids) /\ s.id = a.ids[k]
                          /\ n % 2 = 1 => s.kind = "SELECT"
                          /\ n % 2 = 0 =>
                                /\ s.kind = (IF Found(k) THEN "UPDATE" ELSE "INSERT")
                                /\ s.kind = "INSERT" =>
                                      s.sets = RowSets(Row(
                                          SqlText(UnwrapOr(new_doc, "")),
                                          to_string(UnwrapOr(new_meta, JNull)),
                                          SqlText(vector_to_string(UnwrapOr(new_emb, <<>>)))))
                          /\ n < Len(log[c]) => s.ok
                /\ pc[c] = "done" /\ result[c] = Ok =>
                      /\ Len(log[c]) = 2 * Len(a.ids)
                      /\ \A k \in 1..Len(a.ids) : rows[a.ids[k]] # NoRow

\* an upsert of two ids, the first with a row and the second without, has
\* returned Ok after SELECT, UPDATE, SELECT, INSERT, the inserted row holding
\* the metadata passed and the default document
C25_Witness ==
    /\ op[1] = "upsert" /\ pc[1] = "done" /\ result[1] = Ok
    /\ Len(args[1].ids) = 2
    /\ rows0[1][args[1].ids[1]] # NoRow /\ rows0[1][args[1].ids[2]] = NoRow
    /\ [k \in 1..4 |-> log[1][k].kind] = <<"SELECT", "UPDATE", "SELECT", "INSERT">>
    /\ args[1].metadatas.some /\ Len(args[1].metadatas.v) = 2
    /\ ~args[1].documents.some
    /\ rows[args[1].ids[2]].metadata = to_string(args[1].metadatas.v[2])
    /\ rows[args[1].ids[2]].document = SqlText("")


\* C26: once the hybrid engine rejected a statement of hybrid_search_advanced
\* as an invalid argument, the fallback answers.  With a knn it filters by the
\* query's and the knn's metadata filters (the one present, And[query filter,
\* knn filter] when both are, none when neither is) and by the query's
\* document filter, and searches with knn.query_embeddings if given, else with
\* the vectors generated for knn.query_texts: one slot per vector.  With a
\* query only it is a get under the query's filters limited to n_results: one
\* slot, with a distance 0 for each id.  With neither it is InvalidInput.
C26_FallbackCombinesFilters ==
    \A c \in Clients :
        LET a == args[c]
            Hybrid(k) == log[c][k].kind \in {"SET", "GET_SQL", "HYBRID"}
            rejected == {k \in 1..Len(log[c]) : Hybrid(k) /\ ~log[c][k].ok}
            fell_back == /\ op[c] = "hybrid_search_advanced" /\ rejected # {}
                         /\ ~(pc[c] = "done" /\ result[c] = SqlError /\ Len(log[c]) \in rejected)
        IN  fell_back =>
              LET query_meta == IF a.query.some THEN a.query.v.where_meta ELSE None
                  knn_meta == IF a.knn.some THEN a.knn.v.where_meta ELSE None
                  where_meta == IF query_meta.some /\ knn_meta.some
                                THEN Some(And(<<query_meta.v, knn_meta.v>>))
                                ELSE IF query_meta.some THEN query_meta ELSE knn_meta
                  where_doc == IF a.query.some THEN a.query.v.where_doc ELSE None
                  S == Selected(rows, where_meta, where_doc, None)
                  size == IF a.n_results < Cardinality(S) THEN a.n_results ELSE Cardinality(S)
                  r == out[c]
              IN  /\ Cardinality(rejected) = 1
                  /\ \A k \in 1..Len(log[c]) :
                        k \notin rejected /\ (\E j \in rejected : j < k) =>
                            /\ log[c][k].kind = "SELECT"
                            /\ log[c][k].clause =
                                  build_where_clause(where_meta, where_doc, None).clause
                  /\ ~a.knn.some /\ ~a.query.some =>
                        pc[c] = "done" /\ result[c].kind = "InvalidInput"
                  /\ a.knn.some /\ a.knn.v.query_embeddings.some
                     /\ (pc[c] # "done" \/ result[c] = Ok) =>
                        resolved[c] = a.knn.v.query_embeddings
                  /\ a.knn.some /\ ~a.knn.v.query_embeddings.some
                     /\ (pc[c] # "done" \/ result[c] = Ok) =>
                        /\ resolved[c].some
                        /\ Len(resolved[c].v) = Len(a.knn.v.query_texts.v)
                        /\ ~WrongDimension(resolved[c].v)
                  /\ a.knn.some /\ pc[c] = "done" /\ result[c] = Ok =>
                        /\ Len(r.ids) = Len(resolved[c].v)
                        /\ Len(r.distances.v) = Len(r.ids)
                        /\ \A i \in 1..Len(r.ids) :
                              /\ Len(r.ids[i]) = size
                              /\ \A j \in 1..size :
                                    /\ r.ids[i][j] \in S
                                    /\ r.distances.v[i][j] =
                                          IF rows[r.ids[i][j]].embedding.null THEN 0
                                          ELSE l2_distance(StoredVector(rows[r.ids[i][j]]),
                                                           resolved[c].v[i])
                  /\ ~a.knn.some /\ a.query.some /\ pc[c] = "done" /\ result[c] = Ok =>
                        /\ Len(r.ids) = 1 /\ Len(r.ids[1]) = size
                        /\ \A j \in 1..size : r.ids[1][j] \in S
                        /\ r.distances = Some(<<[j \in 1..size |-> 0]>>)

\* the engine rejected a search with a filtered query and a filtered knn: the
\* fallback selected under And[query filter, knn filter] and returned a row
C26_Witness ==
    /\ op[1] = "hybrid_search_advanced" /\ pc[1] = "done" /\ result[1] = Ok
    /\ \E k \in 1..Len(log[1]) : log[1][k].kind = "SET" /\ ~log[1][k].ok
    /\ args[1].query.some /\ args[1].query.v.where_meta.some
    /\ args[1].knn.some /\ args[1].knn.v.where_meta.some
    /\ qfilter[1].where_meta =
          Some(And(<<args[1].query.v.where_meta.v, args[1].knn.v.where_meta.v>>))
    /\ Len(out[1].ids) = 1 /\ Len(out[1].ids[1]) = 1


\* C27: where hybrid_search_advanced assembles the knn part (a knn together
\* with a query or a rank): knn.query_embeddings, if given, decides alone, the
\* embedding function is not invoked and the first vector is the query
\* vector; else the first of knn.query_texts is embedded, an Embedding error
\* being returned when the collection has no embedding function; a missing or
\* empty list and a query vector that has not `dimension` components end the
\* call with InvalidInput; every such error is returned with no statement
\* sent.  In the parameter, k is knn.n_results, or 10 when it is unset, and
\* filter is the compiled knn.where_meta, absent when that is no condition.
C27_KnnPartOfSearchParm ==
    \A c \in Clients :
        op[c] = "hybrid_search_advanced" /\ args[c].knn.some
        /\ (args[c].query.some \/ args[c].rank.some) =>
            LET knn == args[c].knn.v
                conds == IF knn.where_meta.some
                         THEN build_metadata_filter_for_search_parm(knn.where_meta.v)
                         ELSE <<>>
                Rejected(kinds) ==
                    /\ parm[c].empty /\ pc[c] = "done" /\ log[c] = <<>>
                    /\ result[c].kind \in kinds
                Assembled ==
                    /\ ~parm[c].empty /\ parm[c].json.knn.some
                    /\ parm[c].json.knn.v.field = "embedding"
                    /\ parm[c].json.knn.v.k = (IF knn.n_results.some THEN knn.n_results.v ELSE 10)
                    /\ Len(parm[c].json.knn.v.query_vector) = dimension
                    /\ parm[c].json.knn.v.filter = (IF conds = <<>> THEN None ELSE Some(conds))
            IN  IF knn.query_embeddings.some
                THEN /\ efCalls[c] = 0
                     /\ IF \/ Len(knn.query_embeddings.v) = 0
                           \/ Len(knn.query_embeddings.v[1]) # dimension
                        THEN Rejected({"InvalidInput"})
                        ELSE /\ Assembled
                             /\ parm[c].json.knn.v.query_vector = knn.query_embeddings.v[1]
                ELSE IF ~knn.query_texts.some \/ Len(UnwrapOr(knn.query_texts, <<>>)) = 0
                THEN Rejected({"InvalidInput"}) /\ efCalls[c] = 0
                ELSE IF ef = "none"
                THEN Rejected({"Embedding"}) /\ efCalls[c] = 0
                ELSE /\ efCalls[c] >= 1
                     /\ log[c] = <<>> => efCalls[c] = 1
                     /\ Assembled \/ Rejected({"Embedding", "InvalidInput"})

\* a knn with two vectors, two texts, a filter and no n_results was assembled
\* next to a query: the first vector, k = 10, the compiled filter, and the
\* embedding function was not invoked
C27_Witness ==
    /\ op[1] = "hybrid_search_advanced" /\ pc[1] = "hybrid_set"
    /\ args[1].query.some /\ args[1].knn.some
    /\ args[1].knn.v.query_texts = Some(<<"1", "2">>)
    /\ args[1].knn.v.query_embeddings = Some(<<Vec(1), Vec(2)>>)
    /\ ~args[1].knn.v.n_results.some
    /\ efCalls[1] = 0
    /\ parm[1].json.knn =
          Some(HybridKnnExpr(10, Vec(1), <<Term(meta_path("x"), JNum(1))>>))


\* C30: a metadata filter of the query of hybrid_search_advanced that compiles
\* to a condition is in the query part of the assembled parameter whatever
\* the document filter: the parameter is assembled and has a query part, and
\* when the document filter compiles to no predicate the query part is the
\* one the assembler of hybrid_search builds from the same two filters.
C30_QueryKeepsMetadataFilter ==
    \A c \in Clients :
        op[c] = "hybrid_search_advanced" /\ args[c].query.some
        /\ args[c].query.v.where_meta.some
        /\ build_metadata_filter_for_search_parm(args[c].query.v.where_meta.v) # <<>>
        /\ (args[c].knn.some => ~parm[c].empty) =>
            LET q == args[c].query.v
                simple == build_search_parm_json(ef, EfResult("constant", <<>>), <<>>,
                                                 q.where_meta, q.where_doc, args[c].n_results)
            IN  /\ ~parm[c].empty
                /\ parm[c].json.query.some
                /\ q.where_doc.some
                   /\ ~build_document_query_for_search_parm(q.where_doc).some =>
                      parm[c].json.query = simple.json.json.query


(* ------------------------------------------------------------------ *)
(* Properties of concurrent calls, continued                            *)
(* ------------------------------------------------------------------ *)
\* C29: under every interleaving of two upserts of an id that had no row
\* when they were called, neither sends its INSERT for the id once the id has
\* a row, so that neither fails on the primary key because both had read the
\* id as absent.
C29_NoInsertOfExistingId ==
    [][\A c \in Clients :
          (\A d \in Clients : op[d] = "upsert" /\ rows0[d]["a"] = NoRow)
          /\ Len(log'[c]) = Len(log[c]) + 1
          /\ log'[c][Len(log'[c])].kind = "INSERT" =>
              rows[log'[c][Len(log'[c])].id] = NoRow]_vars


\* C28: under every interleaving of concurrent hybrid searches and every
\* assignment of pool connections to their statements, the GET_SQL statement of
\* a call reads the @search_parm that the SET statement of the same call wrote
C28_GetSqlReadsOwnParm ==
    \A c \in Clients :
       op[c] = "hybrid_search" /\ seen[c].some => seen[c].v = parm[c]

====
